---------------------------- MODULE Spec2Model ----------------------------
(***************************************************************************)
(* A model of the DNSSEC record-data core of the domain crate:             *)
(*   - the NSEC record type bitmap (RtypeBitmap, RtypeBitmapBuilder,       *)
(*     RtypeBitmapIter) of domain-core/src/rdata/rfc4034.rs,               *)
(*   - the canonical ordering of Srv, Dnskey, Rrsig, Nsec and Ds,          *)
(*   - the DNSKEY key tag and flag getters,                                *)
(*   - parse_all and compose of the record types, and their setters,       *)
(*   - SliceParser and ContextParser of src/bits/parse.rs.                 *)
(* Octets are integers 0..255, octet sequences are TLA+ sequences; the     *)
(* code's 0-based index i is At(s, i).  A Rust panic (an index out of      *)
(* bounds, an unwrap of None) is the outcome "Panic".                      *)
(***************************************************************************)
EXTENDS Integers, Sequences, FiniteSets, TLC

VARIABLES
    \* --- RtypeBitmapBuilder / RtypeBitmap / RtypeBitmapIter
    phase,      \* "new" | "bitmap" | "rejected"
    buf,        \* RtypeBitmapBuilder.buf, the staging buffer
    added,      \* the record types handed to add so far
    nadds,      \* the number of add calls so far
    origin,     \* "none" | "finalize" | "from_octets": where the bitmap came from
    input,      \* the octets handed to from_octets
    decoded,    \* the result of from_octets: "none" | "Ok" | "BadRtypeBitmap" | "ShortBuf" | "Panic"
    bitmap,     \* RtypeBitmap.0, the octets of the bitmap (when phase = "bitmap")
    query,      \* the record type of the last contains call (-1: none)
    answer,     \* its result: "none" | "True" | "False" | "Panic"
    it,         \* the RtypeBitmapIter: [data, block, len, octet, bit]
    itpc,       \* "none" | "live" | "ended" | "Panic"
    yielded,    \* the record types next has returned so far
    \* --- the comparison of two record data values
    kind,       \* "none" | "Srv" | "Dnskey" | "Rrsig" | "Nsec" | "Ds"
    method,     \* "none" | "canonical_cmp" | "cmp" | "partial_cmp"
    lhs,        \* self
    rhs,        \* other
    ord,        \* the result: "none" | "Less" | "Equal" | "Greater"
    \* --- Dnskey::key_tag
    kt_pc,      \* "idle" | "loop" | "fold" | "done"
    dnskey,     \* the Dnskey: [flags, protocol, algorithm, public_key]
    kt_pos,     \* the octets of the public key the iterator has handed out
    kt_res,     \* res, a u32: [hi, lo, over], over set once an addition has passed 32 bits
    kt_tag,     \* the key tag returned (-1: none yet)
    \* --- the flag getters of Dnskey
    fl_self,    \* the Dnskey a getter was called on
    fl_method,  \* "none" | "is_revoked" | "is_secure_entry_point" | "is_zsk"
    fl_result,  \* what it returned (a boolean)
    \* --- parse_all and compose of record data
    pa_type,    \* "none" | "Srv" | "Dnskey" | "Rrsig" | "Nsec" | "Ds"
    pa_src,     \* the value whose composition the parser's octets were made of
    pa_wire,    \* the octets compose wrote for it
    pa_data,    \* the octets of the parser
    pa_start,   \* the position of the parser when parse_all was called
    pa_len,     \* the declared length handed to parse_all
    pa_res,     \* its result: [ok, err, val, pos], pos the position of the parser after
    pa_out,     \* the octets compose wrote for the parsed value: <<>>, or <<octets>> once composed
    \* --- SliceParser / ContextParser
    cu_kind,    \* "none" | "SliceParser" | "ContextParser"
    cu_buf,     \* the slice the parser was created on
    cu_parser,  \* the parser
    cu_before,  \* the parser before the last operation
    cu_op,      \* the last operation ("new" after construction)
    cu_who,     \* the parser it was called on: "parent" | "nested"
    cu_arg,     \* the length it asked for (-1: none)
    cu_ret,     \* what it returned: [ok, err, bytes, val, sub]
    cu_nested,  \* the parser the parent's parse_sub returned last, as it is now: <<>> or <<parser>>
    cu_window,  \* the part of cu_buf it was given: [from, len]
    \* --- one RtypeBitmapBuilder, call by call
    bd_seq,     \* the record types handed to add, in the order of the calls
    bd_before,  \* buf before the last add
    bd_buf,     \* buf
    bd_out,     \* what finalize returned: <<>>, or <<octets>> once called
    \* --- one record data value and the methods called on it
    rv_type,    \* "none" | "Srv" | "Dnskey" | "Rrsig" | "Nsec" | "Ds"
    rv_self,    \* the value
    rv_before,  \* the value before the last call
    rv_op,      \* the last call: "none" | "new" | "set_signature" | "set_next_name" | a method taking &self
    rv_arg      \* the argument of a setter

bmVars == <<phase, buf, added, nadds, origin, input, decoded, bitmap,
            query, answer, it, itpc, yielded>>

ordVars == <<kind, method, lhs, rhs, ord>>

ktVars == <<kt_pc, dnskey, kt_pos, kt_res, kt_tag>>

flVars == <<fl_self, fl_method, fl_result>>

paVars == <<pa_type, pa_src, pa_wire, pa_data, pa_start, pa_len, pa_res, pa_out>>

cuVars == <<cu_kind, cu_buf, cu_parser, cu_before, cu_op, cu_who, cu_arg, cu_ret,
            cu_nested, cu_window>>

bdVars == <<bd_seq, bd_before, bd_buf, bd_out>>

rvVars == <<rv_type, rv_self, rv_before, rv_op, rv_arg>>

vars == <<bmVars, ordVars, ktVars, flVars, paVars, cuVars, bdVars, rvVars>>

\* What the operations on one part leave alone: the other parts.
notBm == <<ordVars, ktVars, flVars, paVars, cuVars, bdVars, rvVars>>
notOrd == <<bmVars, ktVars, flVars, paVars, cuVars, bdVars, rvVars>>
notKt == <<bmVars, ordVars, flVars, paVars, cuVars, bdVars, rvVars>>
notFl == <<bmVars, ordVars, ktVars, paVars, cuVars, bdVars, rvVars>>
notPa == <<bmVars, ordVars, ktVars, flVars, cuVars, bdVars, rvVars>>
notCu == <<bmVars, ordVars, ktVars, flVars, paVars, bdVars, rvVars>>
notBd == <<bmVars, ordVars, ktVars, flVars, paVars, cuVars, rvVars>>
notRv == <<bmVars, ordVars, ktVars, flVars, paVars, cuVars, bdVars>>

---------------------------------------------------------------------------
(* Bounds of the model. *)

\* The number of add calls on one builder.
MaxAdds == 3
\* The number of chunks (windows, whole or cut short) an input of from_octets is built of.
MaxChunks == 2
\* The number of next calls on one iterator.
MaxNext == 6

\* The record types handed to add: A, NS, MX, RRSIG, NSEC, CAA, Int(1234), Int(65535).
AddTypes == {1, 2, 15, 46, 47, 257, 1234, 65535}

\* The record types the contains action is called with.
QueryTypes == {0, 1, 2, 8, 9, 15, 16, 24, 47, 48, 257, 264, 1234, 1235, 1240, 65535}

---------------------------------------------------------------------------
(* Octets and bits. *)

At(s, i) == s[i + 1]

\* s[from..] of a slice (from <= Len(s)).
From(s, from) == SubSeq(s, from + 1, Len(s))

\* s[from..to] of a slice.
Slice(s, from, to) == SubSeq(s, from + 1, to)

Zeros(n) == [i \in 1 .. n |-> 0]

Pow2(n) == 2 ^ n

\* Bit k (0: the least significant) of x.
BitOf(x, k) == (x \div Pow2(k)) % 2

\* x & y and x | y of unsigned integers of w bits.
BitAnd(x, y, w) ==
    LET RECURSIVE go(_)
        go(k) == IF k = w THEN 0
                 ELSE (IF BitOf(x, k) = 1 /\ BitOf(y, k) = 1 THEN Pow2(k) ELSE 0) + go(k + 1)
    IN go(0)

BitOr(x, y, w) ==
    LET RECURSIVE go(_)
        go(k) == IF k = w THEN 0
                 ELSE (IF BitOf(x, k) = 1 \/ BitOf(y, k) = 1 THEN Pow2(k) ELSE 0) + go(k + 1)
    IN go(0)

---------------------------------------------------------------------------
(* Friendly helper functions. *)

\* split_rtype: window number, octet number and octet mask of a record type.
split_rtype(rtype) ==
    [ block |-> rtype \div 256,
      octet |-> (rtype % 256) \div 8,
      mask  |-> 128 \div Pow2(rtype % 8) ]

\* read_window: the next window of a bitmap, or None.
read_window(data) ==
    IF Len(data) = 0 THEN [some |-> FALSE]
    ELSE LET n == At(data, 0)
             d1 == From(data, 1)
         IN IF Len(d1) = 0 THEN [some |-> FALSE]
            ELSE LET l == At(d1, 0)
                     d2 == From(d1, 1)
                 IN IF Len(d2) >= l
                    THEN [some |-> TRUE, n |-> n,
                          window |-> Slice(d2, 0, l), rest |-> From(d2, l)]
                    ELSE [some |-> FALSE]

---------------------------------------------------------------------------
(* RtypeBitmap. *)

\* from_octets had it no check for a window without octets.
RECURSIVE from_octets_empty_window_kept(_)
from_octets_empty_window_kept(data) ==
    IF Len(data) = 0 THEN "Ok"
    ELSE IF Len(data) < 2 THEN "Panic"
    ELSE LET len == At(data, 1) + 2
         IN IF len > 34 THEN "BadRtypeBitmap"
            ELSE IF Len(data) < len THEN "ShortBuf"
            ELSE from_octets_empty_window_kept(From(data, len))

\* from_octets had it looked at the octets left before the window's length.
RECURSIVE from_octets_short_first(_)
from_octets_short_first(data) ==
    IF Len(data) = 0 THEN "Ok"
    ELSE IF Len(data) < 2 THEN "Panic"
    ELSE LET len == At(data, 1) + 2
         IN IF Len(data) < len THEN "ShortBuf"
            ELSE IF len = 2 THEN "BadRtypeBitmap"
            ELSE IF len > 34 THEN "BadRtypeBitmap"
            ELSE from_octets_short_first(From(data, len))

\* RtypeBitmap::from_octets: the check of the octets.
RECURSIVE from_octets(_)
from_octets(data) ==
    IF Len(data) = 0 THEN "Ok"
    ELSE IF Len(data) < 2 THEN "Panic"                  \* data[1]
    ELSE LET len == At(data, 1) + 2
         IN IF len = 2 THEN "BadRtypeBitmap"
            ELSE IF len > 34 THEN "BadRtypeBitmap"
            ELSE IF Len(data) < len THEN "ShortBuf"
            ELSE from_octets(From(data, len))

\* RtypeBitmap::contains.
RECURSIVE contains_from(_, _)
contains_from(data, rtype) ==
    LET s == split_rtype(rtype)
    IN IF Len(data) = 0 THEN "False"
       ELSE LET w == read_window(data)
            IN IF ~w.some THEN "Panic"                  \* read_window(data).unwrap()
               ELSE IF w.n = s.block
               THEN IF Len(w.window) < s.octet THEN "False"
                    ELSE IF s.octet >= Len(w.window) THEN "Panic"   \* window[octet]
                    ELSE IF BitAnd(At(w.window, s.octet), s.mask, 8) = 0 THEN "False"
                    ELSE "True"
               ELSE contains_from(w.rest, rtype)

contains(octets, rtype) == contains_from(octets, rtype)

---------------------------------------------------------------------------
(* RtypeBitmapBuilder. *)

\* The staging buffer with 34 zero octets inserted at pos and the block number set.
InsertBlock(b, pos, block) ==
    Slice(b, 0, pos) \o <<block>> \o Zeros(33) \o From(b, pos)

\* get_block had it put every new block at the end.
RECURSIVE get_block_from_appending(_, _, _)
get_block_from_appending(b, block, pos) ==
    IF pos < Len(b)
    THEN IF At(b, pos) = block THEN [buf |-> b, pos |-> pos]
         ELSE get_block_from_appending(b, block, pos + 34)
    ELSE [buf |-> b \o <<block>> \o Zeros(33), pos |-> pos]

\* RtypeBitmapBuilder::get_block: the buffer with the block present, and the
\* position of the block in it.
RECURSIVE get_block_from(_, _, _)
get_block_from(b, block, pos) ==
    IF pos < Len(b)
    THEN IF At(b, pos) = block THEN [buf |-> b, pos |-> pos]
         ELSE IF At(b, pos) > block
         THEN [buf |-> InsertBlock(b, pos, block), pos |-> pos]
         ELSE get_block_from(b, block, pos + 34)
    ELSE [buf |-> b \o <<block>> \o Zeros(33), pos |-> pos]

get_block(b, block) == get_block_from(b, block, 0)

\* add had it written the length octet whatever it was before.
add_length_overwritten(b, rtype) ==
    LET s  == split_rtype(rtype)
        g  == get_block(b, s.block)
        p  == g.pos
        b1 == [g.buf EXCEPT ![p + 2] = s.octet + 1]
    IN [b1 EXCEPT ![p + s.octet + 3] = BitOr(@, s.mask, 8)]

\* add had it flipped the bit.
add_toggling(b, rtype) ==
    LET s  == split_rtype(rtype)
        g  == get_block(b, s.block)
        p  == g.pos
        b1 == IF At(g.buf, p + 1) < s.octet + 1
              THEN [g.buf EXCEPT ![p + 2] = s.octet + 1]
              ELSE g.buf
    IN [b1 EXCEPT ![p + s.octet + 3] =
           IF BitAnd(@, s.mask, 8) # 0 THEN @ - s.mask ELSE @ + s.mask]

\* RtypeBitmapBuilder::add: the staging buffer after add(rtype).
add(b, rtype) ==
    LET s  == split_rtype(rtype)
        g  == get_block(b, s.block)
        p  == g.pos
        b1 == IF At(g.buf, p + 1) < s.octet + 1
              THEN [g.buf EXCEPT ![p + 2] = s.octet + 1]
              ELSE g.buf
    IN [b1 EXCEPT ![p + s.octet + 3] = BitOr(@, s.mask, 8)]

\* ptr::copy(buf + src, buf + dst, len): a memmove within the buffer.
CopyWithin(b, src, dst, len) ==
    [i \in 1 .. Len(b) |->
        IF i - 1 >= dst /\ i - 1 < dst + len THEN At(b, src + (i - 1 - dst)) ELSE b[i]]

\* finalize had it moved no block down.
RECURSIVE finalize_from_uncopied(_, _, _)
finalize_from_uncopied(b, src_pos, dst_pos) ==
    IF src_pos < Len(b)
    THEN finalize_from_uncopied(b, src_pos + 34, dst_pos + At(b, src_pos + 1) + 2)
    ELSE Slice(b, 0, dst_pos)

\* RtypeBitmapBuilder::finalize: the octets of the bitmap.
RECURSIVE finalize_from(_, _, _)
finalize_from(b, src_pos, dst_pos) ==
    IF src_pos < Len(b)
    THEN LET len == At(b, src_pos + 1) + 2
             b1  == IF src_pos # dst_pos THEN CopyWithin(b, src_pos, dst_pos, len) ELSE b
         IN finalize_from(b1, src_pos + 34, dst_pos + len)
    ELSE Slice(b, 0, dst_pos)

finalize(b) == finalize_from(b, 0, 0)

---------------------------------------------------------------------------
(* RtypeBitmapIter. *)

NoIter == [data |-> <<>>, block |-> 0, len |-> 0, octet |-> 0, bit |-> 0, panic |-> FALSE]

\* The step of advance taken when bit reaches 7: on to the next octet, and at
\* the end of the block on to the next block; panic is set when an index is out
\* of bounds, and the data is empty when the bitmap is exhausted.
next_octet(i0) ==
    LET octet1 == i0.octet + 1
    IN IF octet1 = i0.len
       THEN IF i0.len > Len(i0.data)
            THEN [i0 EXCEPT !.panic = TRUE]                       \* data[len..]
            ELSE LET d == From(i0.data, i0.len)
                 IN IF Len(d) = 0
                    THEN [i0 EXCEPT !.bit = 0, !.octet = octet1, !.data = d]
                    ELSE IF Len(d) < 2
                    THEN [i0 EXCEPT !.panic = TRUE]               \* data[1]
                    ELSE [data |-> d, block |-> At(d, 0) * 256,
                          len |-> At(d, 1), octet |-> 0, bit |-> 0,
                          panic |-> FALSE]
       ELSE [i0 EXCEPT !.bit = 0, !.octet = octet1]

\* The bits b of the current octet, from..6, with data[octet] & (0x80 >> b) != 0.
SetBits(i, from) ==
    { b \in from .. 6 : BitAnd(At(i.data, i.octet), 128 \div Pow2(b), 8) # 0 }

Min(S) == CHOOSE x \in S : \A y \in S : x <= y

\* RtypeBitmapIter::advance. The loop adds one to bit and tests the bit until
\* one is set: the bits bit+1..6 of the current octet first, then, each time bit
\* reaches 7, the bits 0..6 of the octet next_octet steps to.
RECURSIVE advance_octet(_, _)
advance_octet(i, from) ==
    IF from <= 6 /\ i.octet >= Len(i.data) THEN [i EXCEPT !.panic = TRUE]   \* data[octet]
    ELSE IF SetBits(i, from) # {} THEN [i EXCEPT !.bit = Min(SetBits(i, from))]
    ELSE LET i1 == next_octet(i)
         IN IF i1.panic THEN i1
            ELSE IF Len(i1.data) = 0 THEN i1                          \* return
            ELSE advance_octet(i1, 0)

advance(i0) == advance_octet(i0, i0.bit + 1)

\* RtypeBitmapIter::new.
iter_new(data) ==
    IF Len(data) = 0 THEN NoIter
    ELSE IF Len(data) < 2 THEN [NoIter EXCEPT !.panic = TRUE]        \* data[2..], data[1]
    ELSE LET res == [data |-> From(data, 2), block |-> At(data, 0) * 256,
                     len |-> At(data, 1), octet |-> 0, bit |-> 0, panic |-> FALSE]
         IN IF Len(res.data) = 0 THEN [res EXCEPT !.panic = TRUE]      \* res.data[0]
            ELSE IF BitAnd(At(res.data, 0), 128, 8) = 0 THEN advance(res)
            ELSE res

\* The record type next returns: block | (octet as u16) << 3 | bit.
iter_item(i) == BitOr(BitOr(i.block, (i.octet * 8) % 65536, 16), i.bit, 16)

---------------------------------------------------------------------------
(* The inputs of from_octets: up to MaxChunks chunks, each a window with its *)
(* octets all there or cut short, or a lone window number.                   *)

WinNums == {0, 1}
LenBytes == {0, 1, 2, 32, 33}
FillOctets == {1, 64}

Fill(n, f) == [i \in 1 .. n |-> f]

Chunks ==
    { <<n>> : n \in WinNums }
    \cup UNION { { <<n, l>> \o Fill(p, f) :
                     n \in WinNums, f \in FillOctets,
                     p \in {q \in {0, l - 1, l} : q >= 0} } : l \in LenBytes }

RECURSIVE Inputs(_)
Inputs(k) ==
    IF k = 0 THEN { <<>> }
    ELSE LET shorter == Inputs(k - 1)
         IN shorter \cup { s \o c : s \in shorter, c \in Chunks }

---------------------------------------------------------------------------
(* Orderings of the parts of record data. *)

\* Ordering::Equal => { }, other => return other
Then(first, rest) == IF first = "Equal" THEN rest ELSE first

\* cmp of two integers (u8, u16, u32, and the registry enumerations and Serial,
\* which order by their integer value).
IntCmp(a, b) == IF a < b THEN "Less" ELSE IF a > b THEN "Greater" ELSE "Equal"

\* cmp of two octet slices: lexicographic, a proper prefix first.
RECURSIVE OctetsCmp(_, _)
OctetsCmp(a, b) ==
    IF Len(a) = 0 /\ Len(b) = 0 THEN "Equal"
    ELSE IF Len(a) = 0 THEN "Less"
    ELSE IF Len(b) = 0 THEN "Greater"
    ELSE Then(IntCmp(Head(a), Head(b)), OctetsCmp(Tail(a), Tail(b)))

\* A domain name is its uncompressed wire encoding: labels, each a length octet
\* and its octets, up to the root label. The name with its letters in lower case.
LowerOctet(o) == IF 65 <= o /\ o <= 90 THEN o + 32 ELSE o

RECURSIVE LowerName(_)
LowerName(name) ==
    IF Len(name) = 0 THEN <<>>
    ELSE LET l == Head(name)
         IN <<l>> \o [i \in 1 .. l |-> LowerOctet(name[i + 1])]
                 \o LowerName(From(name, l + 1))

\* ToDname::composed_cmp: the order of the wire encodings, the case kept.
composed_cmp(a, b) == OctetsCmp(a, b)

\* ToDname::lowercase_composed_cmp: the order of the lower-cased wire encodings.
lowercase_composed_cmp(a, b) == OctetsCmp(LowerName(a), LowerName(b))

\* ToDname::name_cmp: the natural order of names, the case kept.
name_cmp(a, b) == OctetsCmp(a, b)

\* RtypeBitmap: cmp, canonical_cmp and partial_cmp are those of the octets.
RtypeBitmap_cmp(a, b) == OctetsCmp(a, b)

---------------------------------------------------------------------------
(* CanonicalOrd, and for Nsec also Ord and PartialOrd. *)

Srv_canonical_cmp(self, other) ==
    Then(IntCmp(self.priority, other.priority),
    Then(IntCmp(self.weight, other.weight),
    Then(IntCmp(self.port, other.port),
         lowercase_composed_cmp(self.target, other.target))))

Dnskey_canonical_cmp(self, other) ==
    Then(IntCmp(self.flags, other.flags),
    Then(IntCmp(self.protocol, other.protocol),
    Then(IntCmp(self.algorithm, other.algorithm),
         OctetsCmp(self.public_key, other.public_key))))

\* Rrsig's canonical_cmp had it compared signer_name with its case kept.
Rrsig_canonical_cmp_case_kept(self, other) ==
    Then(IntCmp(self.type_covered, other.type_covered),
    Then(IntCmp(self.algorithm, other.algorithm),
    Then(IntCmp(self.labels, other.labels),
    Then(IntCmp(self.original_ttl, other.original_ttl),
    Then(IntCmp(self.expiration, other.expiration),
    Then(IntCmp(self.inception, other.inception),
    Then(IntCmp(self.key_tag, other.key_tag),
    Then(composed_cmp(self.signer_name, other.signer_name),
         OctetsCmp(self.signature, other.signature)))))))))

Rrsig_canonical_cmp(self, other) ==
    Then(IntCmp(self.type_covered, other.type_covered),
    Then(IntCmp(self.algorithm, other.algorithm),
    Then(IntCmp(self.labels, other.labels),
    Then(IntCmp(self.original_ttl, other.original_ttl),
    Then(IntCmp(self.expiration, other.expiration),
    Then(IntCmp(self.inception, other.inception),
    Then(IntCmp(self.key_tag, other.key_tag),
    Then(lowercase_composed_cmp(self.signer_name, other.signer_name),
         OctetsCmp(self.signature, other.signature)))))))))

\* RFC 6840: next_name is not converted to lower case. The types are compared
\* as the code compares them: self.types with self.types.
Nsec_canonical_cmp(self, other) ==
    Then(composed_cmp(self.next_name, other.next_name),
         RtypeBitmap_cmp(self.types, self.types))

Nsec_cmp(self, other) ==
    Then(name_cmp(self.next_name, other.next_name),
         RtypeBitmap_cmp(self.types, self.types))

\* Some(ordering) in every case.
Nsec_partial_cmp(self, other) ==
    Then(name_cmp(self.next_name, other.next_name),
         RtypeBitmap_cmp(self.types, self.types))

\* ToDname::name_eq: the natural equality of names, the case kept.
name_eq(a, b) == a = b

\* PartialEq for RtypeBitmap: that of the octets.
RtypeBitmap_eq(a, b) == a = b

\* PartialEq for Nsec
Nsec_eq(self, other) ==
    name_eq(self.next_name, other.next_name) /\ RtypeBitmap_eq(self.types, other.types)

\* Ds's canonical_cmp had it compared the digests first.
Ds_canonical_cmp_digest_first(self, other) ==
    Then(OctetsCmp(self.digest, other.digest),
    Then(IntCmp(self.key_tag, other.key_tag),
    Then(IntCmp(self.algorithm, other.algorithm),
         IntCmp(self.digest_type, other.digest_type))))

Ds_canonical_cmp(self, other) ==
    Then(IntCmp(self.key_tag, other.key_tag),
    Then(IntCmp(self.algorithm, other.algorithm),
    Then(IntCmp(self.digest_type, other.digest_type),
         OctetsCmp(self.digest, other.digest))))

\* canonical_cmp of two values of one record type.
canonical_cmp(k, a, b) ==
    CASE k = "Srv"    -> Srv_canonical_cmp(a, b)
      [] k = "Dnskey" -> Dnskey_canonical_cmp(a, b)
      [] k = "Rrsig"  -> Rrsig_canonical_cmp(a, b)
      [] k = "Nsec"   -> Nsec_canonical_cmp(a, b)
      [] k = "Ds"     -> Ds_canonical_cmp(a, b)

---------------------------------------------------------------------------
(* The record data values compared. *)

\* Integer fields range over 0..MaxField.
MaxField == 1
\* Octet tails (key, digest, signature) are of at most MaxTail octets.
MaxTail == 2

Ints == 0 .. MaxField

TailOctets == {0, 255}

Tails == UNION { [1 .. n -> TailOctets] : n \in 0 .. MaxTail }

\* The names ".", "A.", "a." and "B.".
Names == { <<0>>, <<1, 65, 0>>, <<1, 97, 0>>, <<1, 66, 0>> }

\* The bitmaps of Nsec values: those the builder makes of A and NS.
RECURSIVE BitmapOf(_)
BitmapOf(S) ==
    IF S = {} THEN <<>>
    ELSE LET t == CHOOSE x \in S : TRUE
         IN add(BitmapOf(S \ {t}), t)

NsecBitmaps == { finalize(BitmapOf(S)) : S \in SUBSET {1, 2} }

SrvValues ==
    [priority : Ints, weight : Ints, port : Ints, target : Names]

DnskeyValues ==
    [flags : Ints, protocol : Ints, algorithm : Ints, public_key : Tails]

DsValues ==
    [key_tag : Ints, algorithm : Ints, digest_type : Ints, digest : Tails]

NsecValues ==
    [next_name : Names, types : NsecBitmaps]

\* Rrsig values: those that differ in at most one field from the value with
\* every integer 0, the signer "a." and an empty signature.
RrsigBase ==
    [type_covered |-> 0, algorithm |-> 0, labels |-> 0, original_ttl |-> 0,
     expiration |-> 0, inception |-> 0, key_tag |-> 0,
     signer_name |-> <<1, 97, 0>>, signature |-> <<>>]

RrsigValues ==
    {RrsigBase}
    \cup { [RrsigBase EXCEPT ![f] = v] :
             f \in {"type_covered", "algorithm", "labels", "original_ttl",
                    "expiration", "inception", "key_tag"},
             v \in Ints }
    \cup { [RrsigBase EXCEPT !.signer_name = n] : n \in Names }
    \cup { [RrsigBase EXCEPT !.signature = t] : t \in Tails }

Values(k) ==
    CASE k = "Srv"    -> SrvValues
      [] k = "Dnskey" -> DnskeyValues
      [] k = "Rrsig"  -> RrsigValues
      [] k = "Nsec"   -> NsecValues
      [] k = "Ds"     -> DsValues

---------------------------------------------------------------------------
(* The comparison state machine. *)

\* What a comparison of a with b by method m of record type k leaves behind.
Compared(k, m, a, b, o) ==
    /\ kind' = k
    /\ method' = m
    /\ lhs' = a
    /\ rhs' = b
    /\ ord' = o

SrvCanonicalCmp ==
    /\ kind = "none"
    /\ \E a, b \in SrvValues : Compared("Srv", "canonical_cmp", a, b, Srv_canonical_cmp(a, b))
    /\ UNCHANGED notOrd

DnskeyCanonicalCmp ==
    /\ kind = "none"
    /\ \E a, b \in DnskeyValues : Compared("Dnskey", "canonical_cmp", a, b, Dnskey_canonical_cmp(a, b))
    /\ UNCHANGED notOrd

RrsigCanonicalCmp ==
    /\ kind = "none"
    /\ \E a, b \in RrsigValues : Compared("Rrsig", "canonical_cmp", a, b, Rrsig_canonical_cmp(a, b))
    /\ UNCHANGED notOrd

NsecCanonicalCmp ==
    /\ kind = "none"
    /\ \E a, b \in NsecValues : Compared("Nsec", "canonical_cmp", a, b, Nsec_canonical_cmp(a, b))
    /\ UNCHANGED notOrd

NsecCmp ==
    /\ kind = "none"
    /\ \E a, b \in NsecValues : Compared("Nsec", "cmp", a, b, Nsec_cmp(a, b))
    /\ UNCHANGED notOrd

NsecPartialCmp ==
    /\ kind = "none"
    /\ \E a, b \in NsecValues : Compared("Nsec", "partial_cmp", a, b, Nsec_partial_cmp(a, b))
    /\ UNCHANGED notOrd

DsCanonicalCmp ==
    /\ kind = "none"
    /\ \E a, b \in DsValues : Compared("Ds", "canonical_cmp", a, b, Ds_canonical_cmp(a, b))
    /\ UNCHANGED notOrd

NextOrd ==
    \/ SrvCanonicalCmp
    \/ DnskeyCanonicalCmp
    \/ RrsigCanonicalCmp
    \/ NsecCanonicalCmp
    \/ NsecCmp
    \/ NsecPartialCmp
    \/ DsCanonicalCmp

---------------------------------------------------------------------------
(* Dnskey::key_tag. *)

\* SecAlg::RsaMd5.to_int()
RsaMd5 == 1

\* A u32 is its two 16-bit halves; over is set once an addition has passed the
\* 32 bits, and the value has wrapped.
U32From(x) == [hi |-> x \div 65536, lo |-> x % 65536, over |-> FALSE]

\* r += v, for v below 2^24.
U32Add(r, v) ==
    LET lo == r.lo + (v % 65536)
        hi == r.hi + (v \div 65536) + (lo \div 65536)
    IN [hi |-> hi % 65536, lo |-> lo % 65536, over |-> (r.over \/ hi >= 65536)]

\* A public key is given by its length and the pattern of octets it repeats:
\* octet i of the key is pat[i % len(pat)].
KeyLen(key) == key.len

KeyAt(key, i) == At(key.pat, i % Len(key.pat))

\* let mut res = u32::from(self.flags);
\* res += u32::from(self.protocol) << 8;
\* res += u32::from(self.algorithm.to_int());
key_tag_init(flags, protocol, algorithm) ==
    U32Add(U32Add(U32From(flags), protocol * 256), algorithm)

\* One turn of the loop with res, at pos octets into a key with at least one
\* octet left: res += x << 8 for the first octet, res += x for the second, when
\* there is one.
key_tag_turn(res, key, pos) ==
    LET first == U32Add(res, KeyAt(key, pos) * 256)
    IN IF pos + 1 < KeyLen(key) THEN U32Add(first, KeyAt(key, pos + 1)) ELSE first

\* The fold had it added the low half of res instead of bits 16-31.
key_tag_fold_low_half(res) == U32Add(res, res.lo)

\* res += (res >> 16) & 0xFFFF
key_tag_fold(res) == U32Add(res, res.hi % 65536)

\* (res & 0xFFFF) as u16
key_tag_low(res) == res.lo

\* The RsaMd5 branch had it taken the last two octets of the key.
key_tag_rsamd5_last_two(key) ==
    LET len == KeyLen(key)
    IN IF len > 2 THEN KeyAt(key, len - 2) * 256 + KeyAt(key, len - 1) ELSE 0

\* The RsaMd5 branch: the third-to-last and second-to-last octets of the key as
\* a big-endian u16, or 0 for a key of less than 3 octets.
key_tag_rsamd5(key) ==
    LET len == KeyLen(key)
    IN IF len > 2 THEN KeyAt(key, len - 3) * 256 + KeyAt(key, len - 2) ELSE 0

\* The longest public key a record holds: RDLENGTH is 16 bits, 4 octets precede the key.
MaxKeyOctets == 65535 - 4

\* Keys of up to MaxKeyLen octets are enumerated.
MaxKeyLen == 4

KeyOctets == {0, 1, 255}

SmallKeys ==
    { [len |-> 0, pat |-> <<0>>] }
    \cup UNION { { [len |-> n, pat |-> p] : p \in [1 .. n -> KeyOctets] } : n \in 1 .. MaxKeyLen }

\* RsaMd5, RsaSha1, RsaSha256 and Int(255).
SecAlgs == {RsaMd5, 5, 8, 255}

\* The Dnskey values key_tag is called on: small keys with several flags,
\* protocols and algorithms, and the keys of the greatest length with every
\* octet and every field at its greatest.
DnskeyInputs ==
    [flags : {0, 256, 257, 65535}, protocol : {3, 255}, algorithm : SecAlgs,
     public_key : SmallKeys]
    \cup { [flags |-> 65535, protocol |-> 255, algorithm |-> 255,
            public_key |-> [len |-> n, pat |-> <<255>>]] :
            n \in {MaxKeyOctets - 1, MaxKeyOctets} }

\* key_tag() up to the loop, and all of it for RsaMd5.
KeyTagBegin ==
    /\ kt_pc = "idle"
    /\ \E d \in DnskeyInputs :
          /\ dnskey' = d
          /\ IF d.algorithm = RsaMd5
             THEN /\ kt_tag' = key_tag_rsamd5(d.public_key)
                  /\ kt_pc' = "done"
                  /\ UNCHANGED kt_res
             ELSE /\ kt_res' = key_tag_init(d.flags, d.protocol, d.algorithm)
                  /\ kt_pc' = "loop"
                  /\ UNCHANGED kt_tag
    /\ kt_pos' = 0
    /\ UNCHANGED notKt

\* One turn of the loop: two octets of the key, or the last one, or the break.
KeyTagLoop ==
    /\ kt_pc = "loop"
    /\ IF kt_pos >= KeyLen(dnskey.public_key)
       THEN /\ kt_pc' = "fold"
            /\ UNCHANGED <<kt_pos, kt_res>>
       ELSE /\ kt_res' = key_tag_turn(kt_res, dnskey.public_key, kt_pos)
            /\ kt_pos' = kt_pos + 2
            /\ kt_pc' = IF kt_pos + 1 >= KeyLen(dnskey.public_key) THEN "fold" ELSE "loop"
    /\ UNCHANGED <<dnskey, kt_tag>>
    /\ UNCHANGED notKt

\* res += (res >> 16) & 0xFFFF; (res & 0xFFFF) as u16
KeyTagFold ==
    /\ kt_pc = "fold"
    /\ kt_res' = key_tag_fold(kt_res)
    /\ kt_tag' = key_tag_low(kt_res')
    /\ kt_pc' = "done"
    /\ UNCHANGED <<dnskey, kt_pos>>
    /\ UNCHANGED notKt

NextKeyTag ==
    \/ KeyTagBegin
    \/ KeyTagLoop
    \/ KeyTagFold

---------------------------------------------------------------------------
(* The flag getters of Dnskey. *)

\* is_zsk had it tested the secure entry point bit.
is_zsk_low_bit(flags) == BitAnd(flags, 1, 16) # 0

\* self.flags() & 0b0000_0000_1000_0000 != 0
is_revoked(flags) == BitAnd(flags, 128, 16) # 0

\* self.flags() & 0b0000_0000_0000_0001 != 0
is_secure_entry_point(flags) == BitAnd(flags, 1, 16) # 0

\* self.flags() & 0b0000_0001_0000_0000 != 0
is_zsk(flags) == BitAnd(flags, 256, 16) # 0

\* Every 16-bit flags value.
FlagValues == 0 .. 65535

\* The other fields of the Dnskey values the getters are called on.
FlagOthers ==
    { [flags |-> 0, protocol |-> 3, algorithm |-> 8, public_key |-> <<>>],
      [flags |-> 0, protocol |-> 255, algorithm |-> RsaMd5, public_key |-> <<255, 1>>] }

IsRevoked ==
    /\ fl_method = "none"
    /\ \E f \in FlagValues, d \in FlagOthers :
          /\ fl_self' = [d EXCEPT !.flags = f]
          /\ fl_result' = is_revoked(f)
    /\ fl_method' = "is_revoked"
    /\ UNCHANGED notFl

IsSecureEntryPoint ==
    /\ fl_method = "none"
    /\ \E f \in FlagValues, d \in FlagOthers :
          /\ fl_self' = [d EXCEPT !.flags = f]
          /\ fl_result' = is_secure_entry_point(f)
    /\ fl_method' = "is_secure_entry_point"
    /\ UNCHANGED notFl

IsZsk ==
    /\ fl_method = "none"
    /\ \E f \in FlagValues, d \in FlagOthers :
          /\ fl_self' = [d EXCEPT !.flags = f]
          /\ fl_result' = is_zsk(f)
    /\ fl_method' = "is_zsk"
    /\ UNCHANGED notFl

NextFlags ==
    \/ IsRevoked
    \/ IsSecureEntryPoint
    \/ IsZsk

---------------------------------------------------------------------------
(* parse_all and compose of record data.  The parser is an octet buffer    *)
(* and a position in it; an operation returns its value and the position   *)
(* after it, or an error and the position it stopped at.                   *)

ParseOk(v, p) == [ok |-> TRUE, err |-> "none", val |-> v, pos |-> p]

ParseErr(e, p) == [ok |-> FALSE, err |-> e, val |-> <<>>, pos |-> p]

\* The unsigned integer a sequence of octets is in network byte order.
RECURSIVE BigEndian(_)
BigEndian(octets) ==
    IF Len(octets) = 0 THEN 0
    ELSE BigEndian(Slice(octets, 0, Len(octets) - 1)) * 256 + octets[Len(octets)]

\* The w octets of an unsigned integer in network byte order.
RECURSIVE ToBigEndian(_, _)
ToBigEndian(v, w) ==
    IF w = 0 THEN <<>> ELSE ToBigEndian(v \div 256, w - 1) \o <<v % 256>>

\* parser.parse_octets(n): the next n octets, or ShortBuf with the parser where it was.
parse_octets(data, pos, n) ==
    IF Len(data) - pos < n THEN ParseErr("ShortBuf", pos)
    ELSE ParseOk(Slice(data, pos, pos + n), pos + n)

\* u8::parse, u16::parse, u32::parse and the parse of the registry
\* enumerations and of Serial: an integer of w octets.
parse_int(data, pos, w) ==
    LET o == parse_octets(data, pos, w)
    IN IF o.ok THEN ParseOk(BigEndian(o.val), o.pos) ELSE o

\* A run of integer fields parsed one after the other, each with `?`: the
\* values, or the first error with the parser after the fields before it.
RECURSIVE parse_fields(_, _, _)
parse_fields(data, pos, widths) ==
    IF Len(widths) = 0 THEN ParseOk(<<>>, pos)
    ELSE LET f == parse_int(data, pos, Head(widths))
         IN IF ~f.ok THEN f
            ELSE LET r == parse_fields(data, f.pos, Tail(widths))
                 IN IF r.ok THEN ParseOk(<<f.val>> \o r.val, r.pos) ELSE r

\* Name::parse for an uncompressed name: labels of 1 to 63 octets up to the
\* root label.
RECURSIVE dname_end(_, _)
dname_end(data, p) ==
    IF p >= Len(data) THEN [err |-> "ShortBuf", end |-> p]
    ELSE LET l == At(data, p)
         IN IF l = 0 THEN [err |-> "none", end |-> p + 1]
            ELSE IF l > 63 THEN [err |-> "BadName", end |-> p]
            ELSE IF p + 1 + l > Len(data) THEN [err |-> "ShortBuf", end |-> p]
            ELSE dname_end(data, p + 1 + l)

parse_dname(data, pos) ==
    LET e == dname_end(data, pos)
    IN IF e.err = "none" THEN ParseOk(Slice(data, pos, e.end), e.end)
       ELSE ParseErr(e.err, pos)

\* Name::parse_all(parser, len): a name that takes up exactly len octets.
Dname_parse_all(data, pos, len) ==
    LET o == parse_octets(data, pos, len)
    IN IF ~o.ok THEN o
       ELSE LET e == dname_end(o.val, 0)
            IN IF e.err = "ShortBuf" THEN ParseErr("ShortField", pos)
               ELSE IF e.err # "none" THEN ParseErr(e.err, pos)
               ELSE IF e.end < len THEN ParseErr("TrailingData", pos)
               ELSE ParseOk(o.val, o.pos)

\* Srv::parse_all
Srv_parse_all(data, pos, len) ==
    IF len < 7 THEN ParseErr("ShortField", pos)
    ELSE LET f == parse_fields(data, pos, <<2, 2, 2>>)
         IN IF ~f.ok THEN f
            ELSE LET n == Dname_parse_all(data, f.pos, len - 6)
                 IN IF ~n.ok THEN n
                    ELSE ParseOk([priority |-> f.val[1], weight |-> f.val[2],
                                  port |-> f.val[3], target |-> n.val], n.pos)

\* Dnskey::parse_all had it no check of the declared length.
Dnskey_parse_all_unchecked(data, pos, len) ==
    LET f == parse_fields(data, pos, <<2, 1, 1>>)
    IN IF ~f.ok THEN f
       ELSE IF len < 4 THEN ParseErr("Panic", f.pos)
       ELSE LET k == parse_octets(data, f.pos, len - 4)
            IN IF ~k.ok THEN k
               ELSE ParseOk([flags |-> f.val[1], protocol |-> f.val[2],
                             algorithm |-> f.val[3], public_key |-> k.val], k.pos)

\* Dnskey::parse_all
Dnskey_parse_all(data, pos, len) ==
    IF len < 4 THEN ParseErr("ShortField", pos)
    ELSE LET f == parse_fields(data, pos, <<2, 1, 1>>)
         IN IF ~f.ok THEN f
            ELSE LET k == parse_octets(data, f.pos, len - 4)
                 IN IF ~k.ok THEN k
                    ELSE ParseOk([flags |-> f.val[1], protocol |-> f.val[2],
                                  algorithm |-> f.val[3], public_key |-> k.val], k.pos)

\* Ds::parse_all: its error type is ShortBuf.
Ds_parse_all(data, pos, len) ==
    IF len < 4 THEN ParseErr("ShortBuf", pos)
    ELSE LET f == parse_fields(data, pos, <<2, 1, 1>>)
         IN IF ~f.ok THEN f
            ELSE LET d == parse_octets(data, f.pos, len - 4)
                 IN IF ~d.ok THEN d
                    ELSE ParseOk([key_tag |-> f.val[1], algorithm |-> f.val[2],
                                  digest_type |-> f.val[3], digest |-> d.val], d.pos)

\* Rrsig::parse_all had it taken the signature to follow 18 octets, whatever
\* the length of the signer name.
Rrsig_parse_all_name_uncounted(data, pos, len) ==
    LET f == parse_fields(data, pos, <<2, 1, 1, 4, 4, 4, 2>>)
    IN IF ~f.ok THEN f
       ELSE LET n == parse_dname(data, f.pos)
            IN IF ~n.ok THEN n
               ELSE IF len < 18 THEN ParseErr("ShortBuf", n.pos)
               ELSE LET s == parse_octets(data, n.pos, len - 18)
                    IN IF ~s.ok THEN s
                       ELSE ParseOk([type_covered |-> f.val[1], algorithm |-> f.val[2],
                                     labels |-> f.val[3], original_ttl |-> f.val[4],
                                     expiration |-> f.val[5], inception |-> f.val[6],
                                     key_tag |-> f.val[7], signer_name |-> n.val,
                                     signature |-> s.val], s.pos)

\* Rrsig::parse_all: every ShortBuf becomes the error type's (ParsedDnameError)
\* short-buffer error.
Rrsig_parse_all(data, pos, len) ==
    LET start == pos
        f == parse_fields(data, pos, <<2, 1, 1, 4, 4, 4, 2>>)
    IN IF ~f.ok THEN f
       ELSE LET n == parse_dname(data, f.pos)
            IN IF ~n.ok THEN n
               ELSE IF n.pos > start + len THEN ParseErr("ShortBuf", n.pos)
               ELSE LET s == parse_octets(data, n.pos, len - (n.pos - start))
                    IN IF ~s.ok THEN s
                       ELSE ParseOk([type_covered |-> f.val[1], algorithm |-> f.val[2],
                                     labels |-> f.val[3], original_ttl |-> f.val[4],
                                     expiration |-> f.val[5], inception |-> f.val[6],
                                     key_tag |-> f.val[7], signer_name |-> n.val,
                                     signature |-> s.val], s.pos)

\* RtypeBitmap::parse_all: from_octets of the len octets taken.
RtypeBitmap_parse_all(data, pos, len) ==
    LET o == parse_octets(data, pos, len)
    IN IF ~o.ok THEN o
       ELSE LET r == from_octets(o.val)
            IN IF r = "Ok" THEN o ELSE ParseErr(r, o.pos)

\* Nsec::parse_all had it subtracted without looking at the position.
Nsec_parse_all_unchecked(data, pos, len) ==
    LET start == pos
        n == parse_dname(data, pos)
    IN IF ~n.ok THEN ParseErr("BadNextName", n.pos)
       ELSE IF len < n.pos - start THEN ParseErr("Panic", n.pos)
       ELSE LET t == RtypeBitmap_parse_all(data, n.pos, len - (n.pos - start))
            IN IF ~t.ok
               THEN ParseErr(IF t.err = "ShortBuf" THEN "ShortField" ELSE t.err, t.pos)
               ELSE ParseOk([next_name |-> n.val, types |-> t.val], t.pos)

\* Nsec::parse_all, with the conversions into ParseNsecError: an error of
\* the name becomes BadNextName, ShortBuf becomes ShortField.
Nsec_parse_all(data, pos, len) ==
    LET start == pos
        n == parse_dname(data, pos)
    IN IF ~n.ok THEN ParseErr("BadNextName", n.pos)
       ELSE IF n.pos > start + len THEN ParseErr("ShortField", n.pos)
       ELSE LET t == RtypeBitmap_parse_all(data, n.pos, len - (n.pos - start))
            IN IF ~t.ok
               THEN ParseErr(IF t.err = "ShortBuf" THEN "ShortField" ELSE t.err, t.pos)
               ELSE ParseOk([next_name |-> n.val, types |-> t.val], t.pos)

\* parse_all of a record type.
parse_all(k, data, pos, len) ==
    CASE k = "Srv"    -> Srv_parse_all(data, pos, len)
      [] k = "Dnskey" -> Dnskey_parse_all(data, pos, len)
      [] k = "Rrsig"  -> Rrsig_parse_all(data, pos, len)
      [] k = "Nsec"   -> Nsec_parse_all(data, pos, len)
      [] k = "Ds"     -> Ds_parse_all(data, pos, len)

\* Srv::compose
Srv_compose(v) ==
    ToBigEndian(v.priority, 2) \o ToBigEndian(v.weight, 2) \o ToBigEndian(v.port, 2)
        \o v.target

\* Dnskey::compose had it written the protocol before the flags.
Dnskey_compose_protocol_first(v) ==
    ToBigEndian(v.protocol, 1) \o ToBigEndian(v.flags, 2) \o ToBigEndian(v.algorithm, 1)
        \o v.public_key

\* Dnskey::compose
Dnskey_compose(v) ==
    ToBigEndian(v.flags, 2) \o ToBigEndian(v.protocol, 1) \o ToBigEndian(v.algorithm, 1)
        \o v.public_key

\* Ds::compose
Ds_compose(v) ==
    ToBigEndian(v.key_tag, 2) \o ToBigEndian(v.algorithm, 1) \o ToBigEndian(v.digest_type, 1)
        \o v.digest

\* Rrsig::compose
Rrsig_compose(v) ==
    ToBigEndian(v.type_covered, 2) \o ToBigEndian(v.algorithm, 1) \o ToBigEndian(v.labels, 1)
        \o ToBigEndian(v.original_ttl, 4) \o ToBigEndian(v.expiration, 4)
        \o ToBigEndian(v.inception, 4) \o ToBigEndian(v.key_tag, 2)
        \o v.signer_name \o v.signature

\* Nsec::compose
Nsec_compose(v) == v.next_name \o v.types

\* Srv::compose_canonical: the target in lower case.
Srv_compose_canonical(v) ==
    ToBigEndian(v.priority, 2) \o ToBigEndian(v.weight, 2) \o ToBigEndian(v.port, 2)
        \o LowerName(v.target)

\* Rrsig::compose_canonical: the signer name in lower case.
Rrsig_compose_canonical(v) ==
    ToBigEndian(v.type_covered, 2) \o ToBigEndian(v.algorithm, 1) \o ToBigEndian(v.labels, 1)
        \o ToBigEndian(v.original_ttl, 4) \o ToBigEndian(v.expiration, 4)
        \o ToBigEndian(v.inception, 4) \o ToBigEndian(v.key_tag, 2)
        \o LowerName(v.signer_name) \o v.signature

\* compose_canonical of a value of a record type; Dnskey, Nsec and Ds have
\* that of the trait, which is compose.
compose_canonical(k, v) ==
    CASE k = "Srv"    -> Srv_compose_canonical(v)
      [] k = "Dnskey" -> Dnskey_compose(v)
      [] k = "Rrsig"  -> Rrsig_compose_canonical(v)
      [] k = "Nsec"   -> Nsec_compose(v)
      [] k = "Ds"     -> Ds_compose(v)

\* compose of a value of a record type.
compose(k, v) ==
    CASE k = "Srv"    -> Srv_compose(v)
      [] k = "Dnskey" -> Dnskey_compose(v)
      [] k = "Rrsig"  -> Rrsig_compose(v)
      [] k = "Nsec"   -> Nsec_compose(v)
      [] k = "Ds"     -> Ds_compose(v)

\* The parsers parse_all is called on: the octets compose wrote for a value,
\* with up to MaxCut octets missing at the end or one more octet after them,
\* behind a parser that has already read up to MaxPad octets.
MaxCut == 2

MaxPad == 1

Shaped(wire, shape) ==
    IF shape > 0 THEN wire \o <<0>>
    ELSE IF Len(wire) + shape < 0 THEN <<>>
    ELSE Slice(wire, 0, Len(wire) + shape)

\* parse_all(parser, len) called on such a parser.
Parsed(k, v, pad, shape, len) ==
    LET wire == compose(k, v)
        data == Zeros(pad) \o Shaped(wire, shape)
    IN /\ pa_type' = k
       /\ pa_src' = v
       /\ pa_wire' = wire
       /\ pa_data' = data
       /\ pa_start' = pad
       /\ pa_len' = len
       /\ pa_res' = parse_all(k, data, pad, len)
       /\ pa_out' = <<>>

SrvParseAll ==
    /\ pa_type = "none"
    /\ \E v \in SrvValues, pad \in 0 .. MaxPad, shape \in -MaxCut .. 1 :
          \E len \in 0 .. Len(Srv_compose(v)) + 1 : Parsed("Srv", v, pad, shape, len)
    /\ UNCHANGED notPa

DnskeyParseAll ==
    /\ pa_type = "none"
    /\ \E v \in DnskeyValues, pad \in 0 .. MaxPad, shape \in -MaxCut .. 1 :
          \E len \in 0 .. Len(Dnskey_compose(v)) + 1 : Parsed("Dnskey", v, pad, shape, len)
    /\ UNCHANGED notPa

RrsigParseAll ==
    /\ pa_type = "none"
    /\ \E v \in RrsigValues, pad \in 0 .. MaxPad, shape \in -MaxCut .. 1 :
          \E len \in 0 .. Len(Rrsig_compose(v)) + 1 : Parsed("Rrsig", v, pad, shape, len)
    /\ UNCHANGED notPa

NsecParseAll ==
    /\ pa_type = "none"
    /\ \E v \in NsecValues, pad \in 0 .. MaxPad, shape \in -MaxCut .. 1 :
          \E len \in 0 .. Len(Nsec_compose(v)) + 1 : Parsed("Nsec", v, pad, shape, len)
    /\ UNCHANGED notPa

DsParseAll ==
    /\ pa_type = "none"
    /\ \E v \in DsValues, pad \in 0 .. MaxPad, shape \in -MaxCut .. 1 :
          \E len \in 0 .. Len(Ds_compose(v)) + 1 : Parsed("Ds", v, pad, shape, len)
    /\ UNCHANGED notPa

\* compose of the value parse_all returned.
Compose ==
    /\ pa_type # "none"
    /\ pa_res.ok
    /\ pa_out = <<>>
    /\ pa_out' = <<compose(pa_type, pa_res.val)>>
    /\ UNCHANGED <<pa_type, pa_src, pa_wire, pa_data, pa_start, pa_len, pa_res>>
    /\ UNCHANGED notPa

NextParse ==
    \/ SrvParseAll
    \/ DnskeyParseAll
    \/ RrsigParseAll
    \/ NsecParseAll
    \/ DsParseAll
    \/ Compose

---------------------------------------------------------------------------
(* SliceParser and ContextParser of bits/parse.rs.  A SliceParser is       *)
(* [slice, seen], a ContextParser [parser, context].  An operation returns *)
(* the parser as it is after the call together with its result: the octets *)
(* read, the integer made of them, or the nested parser.                   *)

\* SliceParser::new
SliceParser_new(slice) == [slice |-> slice, seen |-> 0]

\* ContextParser::new
ContextParser_new(message) == [parser |-> SliceParser_new(message), context |-> message]

\* ContextParser::from_parts
ContextParser_from_parts(slice, context) ==
    [parser |-> SliceParser_new(slice), context |-> context]

IsContextParser(self) == "context" \in DOMAIN self

Returned(after, octets) ==
    [ok |-> TRUE, err |-> "none", after |-> after, bytes |-> octets, val |-> -1, sub |-> <<>>]

UnexpectedEnd(self) ==
    [ok |-> FALSE, err |-> "UnexpectedEnd", after |-> self, bytes |-> <<>>, val |-> -1,
     sub |-> <<>>]

\* check_len had it refused a read of all the octets left.
check_len_exclusive(self, len) == len < Len(self.slice)

\* SliceParser::check_len: TRUE for Ok(()).
check_len(self, len) == ~(len > Len(self.slice))

\* SliceParser::parse_bytes had it counted the octets before the check.
SliceParser_parse_bytes_counting_first(self, len) ==
    IF ~check_len(self, len) THEN UnexpectedEnd([self EXCEPT !.seen = @ + len])
    ELSE Returned([slice |-> From(self.slice, len), seen |-> self.seen + len],
                  Slice(self.slice, 0, len))

\* SliceParser::parse_bytes
SliceParser_parse_bytes(self, len) ==
    IF ~check_len(self, len) THEN UnexpectedEnd(self)
    ELSE Returned([slice |-> From(self.slice, len), seen |-> self.seen + len],
                  Slice(self.slice, 0, len))

\* SliceParser::skip had it left seen alone.
SliceParser_skip_uncounted(self, len) ==
    IF ~check_len(self, len) THEN UnexpectedEnd(self)
    ELSE Returned([slice |-> From(self.slice, len), seen |-> self.seen], <<>>)

\* SliceParser::skip
SliceParser_skip(self, len) ==
    IF ~check_len(self, len) THEN UnexpectedEnd(self)
    ELSE Returned([slice |-> From(self.slice, len), seen |-> self.seen + len], <<>>)

\* SliceParser::parse_sub had it handed out all that is left, as sub does.
SliceParser_parse_sub_unbounded(self, len) ==
    LET r == SliceParser_parse_bytes(self, len)
    IN IF ~r.ok THEN r
       ELSE [r EXCEPT !.bytes = <<>>, !.sub = <<[slice |-> self.slice, seen |-> 0]>>]

\* SliceParser::parse_sub
SliceParser_parse_sub(self, len) ==
    LET r == SliceParser_parse_bytes(self, len)
    IN IF ~r.ok THEN r
       ELSE [r EXCEPT !.bytes = <<>>, !.sub = <<[slice |-> r.bytes, seen |-> 0]>>]

\* A ContextParser hands the call to its SliceParser and keeps its context.
Delegated(self, r) ==
    [r EXCEPT !.after = [parser |-> r.after, context |-> self.context]]

\* parse_bytes of either parser.
parse_bytes(self, len) ==
    IF IsContextParser(self) THEN Delegated(self, SliceParser_parse_bytes(self.parser, len))
    ELSE SliceParser_parse_bytes(self, len)

\* skip of either parser.
skip(self, len) ==
    IF IsContextParser(self) THEN Delegated(self, SliceParser_skip(self.parser, len))
    ELSE SliceParser_skip(self, len)

\* parse_sub of either parser.
parse_sub(self, len) ==
    IF IsContextParser(self)
    THEN LET r == SliceParser_parse_sub(self.parser, len)
         IN IF ~r.ok THEN Delegated(self, r)
            ELSE [Delegated(self, r) EXCEPT
                     !.sub = <<[parser |-> r.sub[1], context |-> self.context]>>]
    ELSE SliceParser_parse_sub(self, len)

\* seen of either parser.
seen(self) == IF IsContextParser(self) THEN self.parser.seen ELSE self.seen

\* left of either parser.
left(self) == IF IsContextParser(self) THEN Len(self.parser.slice) ELSE Len(self.slice)

\* ParseBytes::parse_u8, parse_u16 and parse_u32: parse_bytes of 1, 2 and 4
\* octets, read as a big-endian integer.  The octets read stay in the record.
parse_uint(self, width) ==
    LET r == parse_bytes(self, width)
    IN IF ~r.ok THEN r ELSE [r EXCEPT !.val = BigEndian(r.bytes)]

parse_u8(self) == parse_uint(self, 1)

parse_u16(self) == parse_uint(self, 2)

parse_u32(self) == parse_uint(self, 4)

\* ParseBytes::parse_octets (the cursor's, not the record parser's)
ParseBytes_parse_octets(self, len) == parse_bytes(self, len)

\* The slices parsers are made on hold 1, 2, 3, ...; no more than MaxBuf
\* octets, and no read asks for more than MaxRead.
MaxBuf == 6

MaxRead == 4

CursorSlices == { [i \in 1 .. n |-> i] : n \in 0 .. MaxBuf }

\* The message a slice is part of, for from_parts: two octets of 9 before it.
MessageOf(slice) == <<9, 9>> \o slice

NoReturn ==
    [ok |-> FALSE, err |-> "none", bytes |-> <<>>, val |-> -1, sub |-> <<>>]

\* A parser has been made on a slice.
Created(k, slice, parser) ==
    /\ cu_kind' = k
    /\ cu_buf' = slice
    /\ cu_parser' = parser
    /\ cu_before' = parser
    /\ cu_op' = "new"
    /\ cu_who' = "parent"
    /\ cu_arg' = -1
    /\ cu_ret' = NoReturn
    /\ cu_nested' = <<>>
    /\ cu_window' = [from |-> 0, len |-> 0]

SliceParserNew ==
    /\ cu_kind = "none"
    /\ \E slice \in CursorSlices : Created("SliceParser", slice, SliceParser_new(slice))
    /\ UNCHANGED notCu

ContextParserNew ==
    /\ cu_kind = "none"
    /\ \E message \in CursorSlices :
          Created("ContextParser", message, ContextParser_new(message))
    /\ UNCHANGED notCu

ContextParserFromParts ==
    /\ cu_kind = "none"
    /\ \E slice \in CursorSlices :
          Created("ContextParser", slice, ContextParser_from_parts(slice, MessageOf(slice)))
    /\ UNCHANGED notCu

\* The parsers a call can be made on, and the one named.
Targets == IF cu_nested = <<>> THEN {"parent"} ELSE {"parent", "nested"}

Target(who) == IF who = "parent" THEN cu_parser ELSE cu_nested[1]

\* Where in cu_buf the octets left to a parser begin.
Offset(who, self) ==
    IF who = "parent" THEN Len(cu_buf) - left(self)
    ELSE cu_window.from + cu_window.len - left(self)

\* An operation op, asking for len octets, has been called on a parser and
\* has returned r.  A nested parser the parent hands out takes the place of
\* the one before it.
Called(who, op, len, r) ==
    /\ cu_op' = op
    /\ cu_who' = who
    /\ cu_arg' = len
    /\ cu_before' = Target(who)
    /\ cu_ret' = [ok |-> r.ok, err |-> r.err, bytes |-> r.bytes, val |-> r.val, sub |-> r.sub]
    /\ IF who = "parent"
       THEN /\ cu_parser' = r.after
            /\ IF r.sub # <<>>
               THEN /\ cu_nested' = r.sub
                    /\ cu_window' = [from |-> Offset(who, cu_parser), len |-> len]
               ELSE UNCHANGED <<cu_nested, cu_window>>
       ELSE /\ cu_nested' = <<r.after>>
            /\ UNCHANGED <<cu_parser, cu_window>>
    /\ UNCHANGED <<cu_kind, cu_buf>>

ParseBytes ==
    /\ cu_kind # "none"
    /\ \E who \in Targets, len \in 0 .. MaxRead :
          Called(who, "parse_bytes", len, parse_bytes(Target(who), len))
    /\ UNCHANGED notCu

Skip ==
    /\ cu_kind # "none"
    /\ \E who \in Targets, len \in 0 .. MaxRead :
          Called(who, "skip", len, skip(Target(who), len))
    /\ UNCHANGED notCu

ParseU8 ==
    /\ cu_kind # "none"
    /\ \E who \in Targets : Called(who, "parse_u8", 1, parse_u8(Target(who)))
    /\ UNCHANGED notCu

ParseU16 ==
    /\ cu_kind # "none"
    /\ \E who \in Targets : Called(who, "parse_u16", 2, parse_u16(Target(who)))
    /\ UNCHANGED notCu

ParseU32 ==
    /\ cu_kind # "none"
    /\ \E who \in Targets : Called(who, "parse_u32", 4, parse_u32(Target(who)))
    /\ UNCHANGED notCu

ParseOctets ==
    /\ cu_kind # "none"
    /\ \E who \in Targets, len \in 0 .. MaxRead :
          Called(who, "parse_octets", len, ParseBytes_parse_octets(Target(who), len))
    /\ UNCHANGED notCu

ParseSub ==
    /\ cu_kind # "none"
    /\ \E who \in Targets, len \in 0 .. MaxRead :
          Called(who, "parse_sub", len, parse_sub(Target(who), len))
    /\ UNCHANGED notCu

NextCursor ==
    \/ SliceParserNew
    \/ ContextParserNew
    \/ ContextParserFromParts
    \/ ParseBytes
    \/ Skip
    \/ ParseU8
    \/ ParseU16
    \/ ParseU32
    \/ ParseOctets
    \/ ParseSub

---------------------------------------------------------------------------
(* One RtypeBitmapBuilder followed call by call. *)

\* builder.add(rtype)
BuilderAdd ==
    /\ bd_out = <<>>
    /\ Len(bd_seq) < MaxAdds
    /\ \E rtype \in AddTypes :
          /\ bd_seq' = Append(bd_seq, rtype)
          /\ bd_buf' = add(bd_buf, rtype)
    /\ bd_before' = bd_buf
    /\ UNCHANGED bd_out
    /\ UNCHANGED notBd

\* builder.finalize()
BuilderFinalize ==
    /\ bd_out = <<>>
    /\ bd_out' = <<finalize(bd_buf)>>
    /\ UNCHANGED <<bd_seq, bd_before, bd_buf>>
    /\ UNCHANGED notBd

NextBuilder ==
    \/ BuilderAdd
    \/ BuilderFinalize

---------------------------------------------------------------------------
(* A record data value and the methods that can be called on it. *)

\* set_signature had it cleared the key tag as well.
set_signature_clearing_key_tag(self, signature) ==
    [self EXCEPT !.signature = signature, !.key_tag = 0]

\* Rrsig::set_signature
set_signature(self, signature) == [self EXCEPT !.signature = signature]

\* Nsec::set_next_name
set_next_name(self, next_name) == [self EXCEPT !.next_name = next_name]

\* The methods of a record type that take &self: the getters, the
\* comparisons, compose and, for a Dnskey, the flag getters and key_tag.
SharedMethods(k) ==
    {"compose", "compose_canonical", "eq", "partial_cmp", "cmp", "canonical_cmp", "hash", "fmt"}
    \cup (CASE k = "Srv"    -> {"priority", "weight", "port", "target"}
            [] k = "Dnskey" -> {"flags", "protocol", "algorithm", "public_key", "is_revoked",
                                "is_secure_entry_point", "is_zsk", "key_tag"}
            [] k = "Rrsig"  -> {"type_covered", "algorithm", "labels", "original_ttl",
                                "expiration", "inception", "key_tag", "signer_name",
                                "signature"}
            [] k = "Nsec"   -> {"next_name", "types"}
            [] k = "Ds"     -> {"key_tag", "algorithm", "digest_type", "digest"})

\* new of a record type
RecordNew ==
    /\ rv_type = "none"
    /\ \E k \in {"Srv", "Dnskey", "Rrsig", "Nsec", "Ds"} :
          /\ rv_type' = k
          /\ \E v \in Values(k) : rv_self' = v /\ rv_before' = v
    /\ rv_op' = "new"
    /\ UNCHANGED rv_arg
    /\ UNCHANGED notRv

\* rrsig.set_signature(signature)
SetSignature ==
    /\ rv_type = "Rrsig"
    /\ \E signature \in Tails :
          /\ rv_self' = set_signature(rv_self, signature)
          /\ rv_arg' = signature
    /\ rv_before' = rv_self
    /\ rv_op' = "set_signature"
    /\ UNCHANGED rv_type
    /\ UNCHANGED notRv

\* nsec.set_next_name(next_name)
SetNextName ==
    /\ rv_type = "Nsec"
    /\ \E next_name \in Names :
          /\ rv_self' = set_next_name(rv_self, next_name)
          /\ rv_arg' = next_name
    /\ rv_before' = rv_self
    /\ rv_op' = "set_next_name"
    /\ UNCHANGED rv_type
    /\ UNCHANGED notRv

\* A call of a method that takes &self: the value is borrowed, not changed.
SharedCall ==
    /\ rv_type # "none"
    /\ \E m \in SharedMethods(rv_type) : rv_op' = m
    /\ rv_before' = rv_self
    /\ UNCHANGED <<rv_type, rv_self, rv_arg>>
    /\ UNCHANGED notRv

NextRecord ==
    \/ RecordNew
    \/ SetSignature
    \/ SetNextName
    \/ SharedCall

---------------------------------------------------------------------------
(* The bitmap state machine. *)

\* A fresh builder, nothing decoded, nothing compared, no key tag asked for.
Init ==
    /\ phase = "new"
    /\ buf = <<>>
    /\ added = {}
    /\ nadds = 0
    /\ origin = "none"
    /\ input = <<>>
    /\ decoded = "none"
    /\ bitmap = <<>>
    /\ query = -1
    /\ answer = "none"
    /\ it = NoIter
    /\ itpc = "none"
    /\ yielded = <<>>
    /\ kind = "none"
    /\ method = "none"
    /\ lhs = <<>>
    /\ rhs = <<>>
    /\ ord = "none"
    /\ kt_pc = "idle"
    /\ dnskey = [flags |-> 0, protocol |-> 0, algorithm |-> 0,
                 public_key |-> [len |-> 0, pat |-> <<0>>]]
    /\ kt_pos = 0
    /\ kt_res = U32From(0)
    /\ kt_tag = -1
    /\ fl_self = [flags |-> 0, protocol |-> 0, algorithm |-> 0, public_key |-> <<>>]
    /\ fl_method = "none"
    /\ fl_result = FALSE
    /\ pa_type = "none"
    /\ pa_src = <<>>
    /\ pa_wire = <<>>
    /\ pa_data = <<>>
    /\ pa_start = 0
    /\ pa_len = 0
    /\ pa_res = ParseErr("none", 0)
    /\ pa_out = <<>>
    /\ cu_kind = "none"
    /\ cu_buf = <<>>
    /\ cu_parser = SliceParser_new(<<>>)
    /\ cu_before = SliceParser_new(<<>>)
    /\ cu_op = "none"
    /\ cu_who = "parent"
    /\ cu_arg = -1
    /\ cu_ret = NoReturn
    /\ cu_nested = <<>>
    /\ cu_window = [from |-> 0, len |-> 0]
    /\ bd_seq = <<>>
    /\ bd_before = <<>>
    /\ bd_buf = <<>>
    /\ bd_out = <<>>
    /\ rv_type = "none"
    /\ rv_self = <<>>
    /\ rv_before = <<>>
    /\ rv_op = "none"
    /\ rv_arg = <<>>

\* builder.add(rtype)
Add ==
    /\ phase = "new"
    /\ decoded = "none"
    /\ nadds < MaxAdds
    /\ \E rtype \in AddTypes :
          /\ buf' = add(buf, rtype)
          /\ added' = added \cup {rtype}
    /\ nadds' = nadds + 1
    /\ UNCHANGED <<phase, origin, input, decoded, bitmap, query, answer, it, itpc, yielded>>
    /\ UNCHANGED notBm

\* builder.finalize()
Finalize ==
    /\ phase = "new"
    /\ decoded = "none"
    /\ bitmap' = finalize(buf)
    /\ phase' = "bitmap"
    /\ origin' = "finalize"
    /\ UNCHANGED <<buf, added, nadds, input, decoded, query, answer, it, itpc, yielded>>
    /\ UNCHANGED notBm

\* RtypeBitmap::from_octets(octets)
FromOctets ==
    /\ phase = "new"
    /\ nadds = 0
    /\ \E octets \in Inputs(MaxChunks) :
          /\ input' = octets
          /\ decoded' = from_octets(octets)
          /\ IF decoded' = "Ok"
             THEN /\ bitmap' = octets
                  /\ phase' = "bitmap"
                  /\ origin' = "from_octets"
             ELSE /\ phase' = "rejected"
                  /\ UNCHANGED <<bitmap, origin>>
    /\ UNCHANGED <<buf, added, nadds, query, answer, it, itpc, yielded>>
    /\ UNCHANGED notBm

\* bitmap.contains(rtype): one call on a bitmap, which it leaves as it is.
Contains ==
    /\ phase = "bitmap"
    /\ itpc = "none"
    /\ query = -1
    /\ \E rtype \in QueryTypes :
          /\ query' = rtype
          /\ answer' = contains(bitmap, rtype)
    /\ UNCHANGED <<phase, buf, added, nadds, origin, input, decoded, bitmap, it, itpc, yielded>>
    /\ UNCHANGED notBm

\* bitmap.iter()
Iter ==
    /\ phase = "bitmap"
    /\ itpc = "none"
    /\ query = -1
    /\ LET i == iter_new(bitmap)
       IN /\ it' = i
          /\ itpc' = IF i.panic THEN "Panic" ELSE "live"
    /\ UNCHANGED <<phase, buf, added, nadds, origin, input, decoded, bitmap, query, answer, yielded>>
    /\ UNCHANGED notBm

\* iter.next()
IterNext ==
    /\ itpc = "live"
    /\ Len(yielded) < MaxNext
    /\ IF Len(it.data) = 0
       THEN /\ itpc' = "ended"
            /\ UNCHANGED <<it, yielded>>
       ELSE LET i == advance(it)
            IN /\ it' = i
               /\ IF i.panic
                  THEN /\ itpc' = "Panic"
                       /\ UNCHANGED yielded
                  ELSE /\ yielded' = Append(yielded, iter_item(it))
                       /\ UNCHANGED itpc
    /\ UNCHANGED <<phase, buf, added, nadds, origin, input, decoded, bitmap, query, answer>>
    /\ UNCHANGED notBm

NextBitmap ==
    \/ Add
    \/ Finalize
    \/ FromOctets
    \/ Contains
    \/ Iter
    \/ IterNext

\* The record type bitmap: its builder, its decoder, contains and the iterator.
Spec == Init /\ [][NextBitmap]_vars

\* The comparison of record data.
SpecOrd == Init /\ [][NextOrd]_vars

\* The key tag of a Dnskey.
SpecKeyTag == Init /\ [][NextKeyTag]_vars

\* The flag getters of a Dnskey.
SpecFlags == Init /\ [][NextFlags]_vars

\* parse_all and compose of record data.
SpecParse == Init /\ [][NextParse]_vars

\* The parsers of bits/parse.rs.
SpecCursor == Init /\ [][NextCursor]_vars

\* One builder, call by call.
SpecBuilder == Init /\ [][NextBuilder]_vars

\* One record data value and the calls on it.
SpecRecord == Init /\ [][NextRecord]_vars

---------------------------------------------------------------------------
(* What the claims about the bitmap speak of, read off the octets alone. *)

\* The windows of an octet sequence, walked from its start by the claimed
\* lengths: [n, len, octets, whole]; the walk ends at a window cut short and at
\* a lone window number.
RECURSIVE WindowList(_)
WindowList(data) ==
    IF Len(data) < 2 THEN <<>>
    ELSE LET l == At(data, 1)
         IN IF Len(data) < 2 + l
            THEN << [n |-> At(data, 0), len |-> l, octets |-> From(data, 2), whole |-> FALSE] >>
            ELSE << [n |-> At(data, 0), len |-> l, octets |-> Slice(data, 2, 2 + l), whole |-> TRUE] >>
                 \o WindowList(From(data, 2 + l))

\* The octets the windows of WindowList take up.
RECURSIVE WindowOctets(_)
WindowOctets(ws) ==
    IF ws = <<>> THEN 0 ELSE 2 + Len(Head(ws).octets) + WindowOctets(Tail(ws))

\* The octet sequence ends in a lone window number.
LoneWindowNumber(data) == Len(data) = WindowOctets(WindowList(data)) + 1

\* A concatenation of complete windows, each of 1 to 32 bitmap octets.
WellFormed(data) ==
    LET ws == WindowList(data)
    IN /\ Len(data) = WindowOctets(ws)
       /\ \A i \in DOMAIN ws : ws[i].whole /\ 1 <= ws[i].len /\ ws[i].len <= 32

\* The window numbers are strictly increasing.
Increasing(data) ==
    LET ws == WindowList(data)
    IN \A i, j \in DOMAIN ws : i < j => ws[i].n < ws[j].n

\* The first window of the walk that is not a complete window of 1 to 32 octets
\* (0: there is none).
FirstBad(data) ==
    LET ws  == WindowList(data)
        bad == { i \in DOMAIN ws : ~ws[i].whole \/ ws[i].len = 0 \/ ws[i].len > 32 }
    IN IF bad = {} THEN 0 ELSE CHOOSE i \in bad : \A j \in bad : i <= j

\* The first window with the number of rtype's window (0: there is none).
WindowOf(data, rtype) ==
    LET ws   == WindowList(data)
        mine == { i \in DOMAIN ws : ws[i].n = rtype \div 256 }
    IN IF mine = {} THEN 0 ELSE CHOOSE i \in mine : \A j \in mine : i <= j

\* The members of a set of numbers in ascending order.
RECURSIVE Ascending(_)
Ascending(S) ==
    IF S = {} THEN <<>>
    ELSE LET m == CHOOSE x \in S : \A y \in S : x <= y
         IN <<m>> \o Ascending(S \ {m})

---------------------------------------------------------------------------
(* C1..C6: the record type bitmap. *)

\* C1: for the set S of record types added to a fresh builder, in any order and
\* with repeats, the bitmap finalize returns answers contains(t) with t \in S,
\* as a boolean, for every record type t.
C1_ContainsRoundTrip ==
    (origin = "finalize" /\ query # -1) =>
        answer = (IF query \in added THEN "True" ELSE "False")

\* C2: iterating the bitmap finalize returns for the set S yields the members of
\* S, each once, in ascending order, and then ends.
C2_IterYieldsMembers ==
    origin = "finalize" =>
        /\ itpc # "Panic"
        /\ itpc = "ended" => yielded = Ascending(added)

\* C3: on a bitmap from_octets accepted, contains(t) is false, and does not
\* fault, when t's window is not present and when it is present with t's octet
\* index not below the number of octets of the window.
C3_ContainsAbsent ==
    (origin = "from_octets" /\ query # -1) =>
        LET i == WindowOf(bitmap, query)
        IN (i = 0 \/ (query % 256) \div 8 >= WindowList(bitmap)[i].len)
              => answer = "False"

\* C4 as stated: every RtypeBitmap, from from_octets or from finalize, holds
\* complete windows of 1 to 32 octets with strictly increasing window numbers.
C4_Original_ValidAndIncreasing ==
    phase = "bitmap" => WellFormed(bitmap) /\ Increasing(bitmap)

\* C4 as amended: every RtypeBitmap, from from_octets or from finalize, holds
\* complete windows of 1 to 32 octets, and an octet sequence that is not such a
\* concatenation never becomes an RtypeBitmap; the window numbers are strictly
\* increasing in what finalize returns, while from_octets does not look at them.
C4_BitmapValid ==
    /\ phase = "bitmap" => WellFormed(bitmap)
    /\ (phase = "bitmap" /\ origin = "finalize") => Increasing(bitmap)
    /\ (decoded # "none" /\ ~WellFormed(input)) => phase # "bitmap"

\* C4's case: from_octets has accepted windows that are not in increasing order.
C4_Witness ==
    /\ phase = "bitmap"
    /\ origin = "from_octets"
    /\ Len(WindowList(bitmap)) = 2
    /\ ~Increasing(bitmap)

\* C5 as stated: from_octets fails with BadRtypeBitmap on an input with a window
\* of length octet 0, with BadRtypeBitmap on an input with a window of length
\* octet 33 or more, and with ShortBuf on an input with fewer octets left than
\* its last window claims.
C5_Original_RejectKinds ==
    decoded # "none" =>
        LET ws == WindowList(input)
        IN /\ (\E i \in DOMAIN ws : ws[i].len = 0) => decoded = "BadRtypeBitmap"
           /\ (\E i \in DOMAIN ws : ws[i].len >= 33) => decoded = "BadRtypeBitmap"
           /\ (ws # <<>> /\ ~ws[Len(ws)].whole) => decoded = "ShortBuf"

\* C5 as amended: from_octets fails, and yields no RtypeBitmap, on every input
\* with a window that is not a complete window of 1 to 32 octets, and the first
\* such window decides the error: BadRtypeBitmap when its length octet is 0 or
\* is 33 or more (also when the input ends before the octets it claims),
\* ShortBuf when its length octet is 1 to 32 and fewer octets are left.
C5_RejectKinds ==
    (decoded # "none" /\ FirstBad(input) # 0) =>
        LET w == WindowList(input)[FirstBad(input)]
        IN /\ phase = "rejected"
           /\ (w.len = 0 \/ w.len >= 33) => decoded = "BadRtypeBitmap"
           /\ (1 <= w.len /\ w.len <= 32) => decoded = "ShortBuf"

\* C5's case: a window that claims 33 octets and is cut short is reported as a
\* malformed bitmap.
C5_Witness ==
    /\ decoded = "BadRtypeBitmap"
    /\ WindowList(input) # <<>>
    /\ LET w == WindowList(input)[FirstBad(input)] IN w.len >= 33 /\ ~w.whole

\* C6: from_octets returns Ok or an error for every octet sequence and never
\* terminates abnormally; an input ending in a lone window number is an error.
C6_FromOctetsTotal ==
    decoded # "none" =>
        /\ decoded \in {"Ok", "BadRtypeBitmap", "ShortBuf"}
        /\ LoneWindowNumber(input) => decoded \in {"BadRtypeBitmap", "ShortBuf"}

---------------------------------------------------------------------------
(* C7..C9: the canonical order. *)

\* A value as the canonical form has it: the names that are lower-cased there
\* (Srv's target, Rrsig's signer_name) in lower case, everything else as it is.
CanonicalValue(k, v) ==
    CASE k = "Srv"   -> [v EXCEPT !.target = LowerName(v.target)]
      [] k = "Rrsig" -> [v EXCEPT !.signer_name = LowerName(v.signer_name)]
      [] OTHER       -> v

\* a and b are the same but for the letter case of the name in field f.
SameButCase(a, b, f) ==
    /\ a[f] # b[f]
    /\ LowerName(a[f]) = LowerName(b[f])
    /\ [a EXCEPT ![f] = <<>>] = [b EXCEPT ![f] = <<>>]

\* C7: canonical_cmp is a strict total order on the values of each record type:
\* a value is Equal to itself; a is Less than b exactly when b is Greater than
\* a; Less is transitive; and Equal is returned only for values that are the
\* same as canonical values.
C7_CanonicalOrderTotal ==
    (kind # "none" /\ method = "canonical_cmp") =>
        /\ canonical_cmp(kind, lhs, lhs) = "Equal"
        /\ (ord = "Less") <=> (canonical_cmp(kind, rhs, lhs) = "Greater")
        /\ \A c \in Values(kind) :
              (ord = "Less" /\ canonical_cmp(kind, rhs, c) = "Less")
                  => canonical_cmp(kind, lhs, c) = "Less"
        /\ ord = "Equal" => CanonicalValue(kind, lhs) = CanonicalValue(kind, rhs)

\* C8: for two Nsec values with the same next_name, canonical_cmp, cmp and
\* partial_cmp return the order of the octets of self.types and other.types, so
\* never Equal for different bitmaps.
C8_NsecTailTieBreak ==
    (kind = "Nsec" /\ lhs.next_name = rhs.next_name) =>
        /\ ord = RtypeBitmap_cmp(lhs.types, rhs.types)
        /\ lhs.types # rhs.types => ord # "Equal"

\* C9: canonical_cmp is Equal for two Rrsig values that are the same but for the
\* letter case of signer_name, and for two Srv values that are the same but for
\* the letter case of target; it is not Equal for two Nsec values that are the
\* same but for the letter case of next_name.
C9_CaseFolding ==
    method = "canonical_cmp" =>
        /\ (kind = "Rrsig" /\ SameButCase(lhs, rhs, "signer_name")) => ord = "Equal"
        /\ (kind = "Srv" /\ SameButCase(lhs, rhs, "target")) => ord = "Equal"
        /\ (kind = "Nsec" /\ SameButCase(lhs, rhs, "next_name")) => ord # "Equal"

\* C9's case: two Rrsig values that differ in the case of signer_name alone have
\* been compared.
C9_Witness ==
    /\ kind = "Rrsig"
    /\ method = "canonical_cmp"
    /\ SameButCase(lhs, rhs, "signer_name")
    /\ ord = "Equal"

---------------------------------------------------------------------------
(* C10: the key tag. *)

\* The wire encoding of a Dnskey: flags(2), protocol(1), algorithm(1), public_key.
WireLen(d) == 4 + KeyLen(d.public_key)

WireAt(d, i) ==
    CASE i = 0 -> d.flags \div 256
      [] i = 1 -> d.flags % 256
      [] i = 2 -> d.protocol
      [] i = 3 -> d.algorithm
      [] OTHER -> KeyAt(d.public_key, i - 4)

\* Word j of the encoding as big-endian 16-bit words, an odd trailing octet being
\* the high half of its word.
WireWord(d, j) ==
    WireAt(d, 2 * j) * 256 + (IF 2 * j + 1 < WireLen(d) THEN WireAt(d, 2 * j + 1) ELSE 0)

\* The sum of the words lo .. hi - 1.
RECURSIVE SumWords(_, _, _)
SumWords(d, lo, hi) ==
    IF hi <= lo THEN 0
    ELSE IF hi = lo + 1 THEN WireWord(d, lo)
    ELSE LET mid == (lo + hi) \div 2
         IN SumWords(d, lo, mid) + SumWords(d, mid, hi)

\* The key tag of the encoding: the sum of its words, bits 16-31 of the sum added
\* to it once, the low 16 bits of that.
WireKeyTag(d) ==
    LET sum == SumWords(d, 0, (WireLen(d) + 1) \div 2)
    IN (sum + ((sum \div 65536) % 65536)) % 65536

\* C10: for a Dnskey with an algorithm other than RsaMd5, key_tag returns the key
\* tag of the wire encoding, and no addition to res passes 32 bits, for public
\* keys of up to 65531 octets.
C10_KeyTagGeneral ==
    dnskey.algorithm # RsaMd5 =>
        /\ kt_pc \in {"loop", "fold", "done"} => ~kt_res.over
        /\ kt_pc = "done" => kt_tag = WireKeyTag(dnskey)

\* C10's case: key_tag has returned for the longest key, every octet 255.
C10_Witness ==
    /\ kt_pc = "done"
    /\ dnskey.algorithm # RsaMd5
    /\ KeyLen(dnskey.public_key) = MaxKeyOctets
    /\ kt_res.hi > 0
    /\ kt_tag = WireKeyTag(dnskey)

\* C11: for a Dnskey with the algorithm RsaMd5, key_tag returns the third-to-last
\* and second-to-last octets of the public key as a big-endian 16-bit value when
\* the key has at least 3 octets, and 0 when it has fewer, whatever the flags and
\* the protocol.
C11_KeyTagRsaMd5 ==
    (kt_pc = "done" /\ dnskey.algorithm = RsaMd5) =>
        LET n == WireLen(dnskey)
        IN kt_tag = (IF n - 4 >= 3 THEN WireAt(dnskey, n - 3) * 256 + WireAt(dnskey, n - 2)
                     ELSE 0)

\* C11's case: key_tag has returned for an RsaMd5 key of more than 3 octets whose
\* third-to-last and second-to-last octets stand apart from its first and last.
C11_Witness ==
    /\ kt_pc = "done"
    /\ dnskey.algorithm = RsaMd5
    /\ KeyLen(dnskey.public_key) > 3
    /\ kt_tag = 256
    /\ KeyAt(dnskey.public_key, 0) = 255
    /\ dnskey.flags = 65535

---------------------------------------------------------------------------
(* C12: the flags of a Dnskey. *)

\* C12: is_zsk is true exactly when bit 0x0100 of flags is set,
\* is_secure_entry_point exactly when bit 0x0001 is set, is_revoked exactly when
\* bit 0x0080 is set, whatever the other bits and fields; flags 0x0101 is a zone
\* key and a secure entry point and is not revoked.
C12_FlagDecoding ==
    /\ fl_method = "is_zsk" => (fl_result <=> ((fl_self.flags \div 256) % 2 = 1))
    /\ fl_method = "is_secure_entry_point" => (fl_result <=> (fl_self.flags % 2 = 1))
    /\ fl_method = "is_revoked" => (fl_result <=> ((fl_self.flags \div 128) % 2 = 1))
    /\ (fl_method # "none" /\ fl_self.flags = 257) =>
          (fl_result <=> fl_method \in {"is_zsk", "is_secure_entry_point"})

\* C12's case: is_zsk has been asked of a key with flags 0x0101.
C12_Witness ==
    /\ fl_method = "is_zsk"
    /\ fl_self.flags = 257
    /\ fl_result

---------------------------------------------------------------------------
(* Claims about parse_all and compose. *)

\* The octets the parser held from the position parse_all was called at.
Available == Len(pa_data) - pa_start

\* C13: parse_all of an Srv with a declared length below 7, and of a Dnskey
\* with a declared length below 4, fails with ShortField whatever the parser
\* holds, and leaves the parser where it was.
C13_ShortField ==
    /\ (pa_type = "Srv" /\ pa_len < 7) =>
           (~pa_res.ok /\ pa_res.err = "ShortField" /\ pa_res.pos = pa_start)
    /\ (pa_type = "Dnskey" /\ pa_len < 4) =>
           (~pa_res.ok /\ pa_res.err = "ShortField" /\ pa_res.pos = pa_start)

\* A Dnskey asked for with length 3 of a parser that holds a whole key.
C13_Witness ==
    /\ pa_type = "Dnskey" /\ pa_len = 3 /\ pa_start = 1 /\ Available >= 5
    /\ pa_res.err = "ShortField"

\* C14: parse_all of a Ds with a declared length below 4 fails with the
\* short-field error, as an Srv with a declared length below 7 does, and not
\* with the short-buffer error.
C14_DsShortField ==
    (pa_type = "Ds" /\ pa_len < 4) => (~pa_res.ok /\ pa_res.err = "ShortField")

\* The octets of the fixed fields of a record type.
FixedLen(k) ==
    CASE k = "Srv"    -> 6
      [] k = "Dnskey" -> 4
      [] k = "Rrsig"  -> 18
      [] k = "Nsec"   -> 0
      [] k = "Ds"     -> 4

\* The octets of the name embedded in a value (none in a Dnskey or a Ds; the
\* target of an Srv is what is left of the declared length).
EmbeddedLen(k, v) ==
    CASE k = "Rrsig" -> Len(v.signer_name)
      [] k = "Nsec"  -> Len(v.next_name)
      [] OTHER       -> 0

\* The variable-length part that ends a value.
TailOf(k, v) ==
    CASE k = "Srv"    -> v.target
      [] k = "Dnskey" -> v.public_key
      [] k = "Rrsig"  -> v.signature
      [] k = "Nsec"   -> v.types
      [] k = "Ds"     -> v.digest

\* C15: when parse_all(parser, len) succeeds the parser has advanced by
\* exactly len octets, and the tail of the value has len less the octets of
\* the fixed fields and of the embedded name (len - 4 for Dnskey and Ds).
C15_ExactConsumption ==
    (pa_type # "none" /\ pa_res.ok) =>
        /\ pa_res.pos = pa_start + pa_len
        /\ Len(TailOf(pa_type, pa_res.val))
              = pa_len - FixedLen(pa_type) - EmbeddedLen(pa_type, pa_res.val)
        /\ pa_type \in {"Dnskey", "Ds"} => Len(TailOf(pa_type, pa_res.val)) = pa_len - 4

\* An Rrsig with a signer name of three octets and a signature of two, read
\* from a parser that holds an octet more.
C15_Witness ==
    /\ pa_type = "Rrsig" /\ pa_res.ok /\ pa_start = 1
    /\ Len(pa_res.val.signer_name) = 3 /\ Len(pa_res.val.signature) = 2
    /\ pa_len = 23 /\ Available = 24 /\ pa_res.pos = 24

\* The parser holds, from where parse_all was called, the octets compose
\* wrote, and the declared length is their number.
Faithful ==
    /\ pa_type # "none"
    /\ pa_len = Len(pa_wire)
    /\ Available >= pa_len
    /\ Slice(pa_data, pa_start, pa_start + pa_len) = pa_wire

\* C16: parse_all of the octets compose wrote for a value, with their number
\* as the declared length, returns that value, and compose of the value
\* returned writes the same octets.
C16_RoundTrip ==
    Faithful =>
        /\ pa_res.ok
        /\ pa_res.val = pa_src
        /\ pa_out # <<>> => pa_out[1] = pa_wire

\* An Nsec with a bitmap that is not empty, parsed and composed again.
C16_Witness ==
    /\ Faithful /\ pa_type = "Nsec" /\ Len(pa_src.types) > 0
    /\ pa_res.val = pa_src /\ pa_out = <<pa_wire>>

\* The parser holds the fixed fields and the embedded name of the value.
PrefixLen == FixedLen(pa_type) + EmbeddedLen(pa_type, pa_src)

\* C20: parse_all of an Rrsig or an Nsec takes as the tail the declared
\* length less the octets the fixed fields and the name took; when the
\* declared length is smaller than these it fails with the short-field
\* error and returns no value, and the subtraction never underflows.
C20_NameBudget ==
    pa_type \in {"Rrsig", "Nsec"} =>
        /\ pa_res.ok =>
              /\ pa_len >= PrefixLen
              /\ Len(TailOf(pa_type, pa_res.val)) = pa_len - PrefixLen
        /\ (Available >= PrefixLen /\ pa_len < PrefixLen) =>
              (~pa_res.ok /\ pa_res.err = "ShortField")
        /\ pa_res.err # "Panic" \/ pa_len >= PrefixLen

---------------------------------------------------------------------------
(* Claims about SliceParser and ContextParser. *)

\* The octets of cu_buf that lay before the parser the last call was made on.
NextOctets(n) ==
    LET from == Offset(cu_who, cu_before)
    IN Slice(cu_buf, from, from + n)

\* The last call moved its parser on by n octets.
Advanced(n) ==
    /\ seen(Target(cu_who)) = seen(cu_before) + n
    /\ left(Target(cu_who)) = left(cu_before) - n

\* C17: parse_bytes(n) returns exactly the next n octets and moves the
\* parser on by n, or fails with UnexpectedEnd when fewer than n are left;
\* skip(n) succeeds in the same cases and moves the parser on likewise.
C17_ReadContract ==
    cu_op \in {"parse_bytes", "skip"} =>
        IF cu_arg <= left(cu_before)
        THEN /\ cu_ret.ok
             /\ cu_op = "parse_bytes" =>
                   (Len(cu_ret.bytes) = cu_arg /\ cu_ret.bytes = NextOctets(cu_arg))
             /\ Advanced(cu_arg)
        ELSE ~cu_ret.ok /\ cu_ret.err = "UnexpectedEnd"

\* A ContextParser that has read 2 of 6 octets reads the 4 that are left.
C17_Witness ==
    /\ cu_kind = "ContextParser" /\ cu_op = "parse_bytes" /\ cu_who = "parent"
    /\ seen(cu_before) = 2 /\ cu_arg = 4 /\ cu_ret.bytes = <<3, 4, 5, 6>>
    /\ left(cu_parser) = 0

\* C18: after any sequence of calls on a parser made on a slice of L octets,
\* successful or failed, seen() + left() is L; for a nested parser L is the
\* length parse_sub was given.
C18_Accounting ==
    cu_kind # "none" =>
        /\ seen(cu_parser) + left(cu_parser) = Len(cu_buf)
        /\ cu_nested # <<>> => seen(cu_nested[1]) + left(cu_nested[1]) = cu_window.len

\* A parser on 6 octets that has given 3 to a nested parser and skipped 2
\* fails to read an integer of 4.
C18_Witness ==
    /\ cu_op = "parse_u32" /\ cu_who = "parent" /\ ~cu_ret.ok
    /\ cu_window.len = 3 /\ seen(cu_parser) = 5 /\ left(cu_parser) = 1

\* C19: parse_sub(len) fails with UnexpectedEnd when len exceeds left();
\* otherwise the parent moves on by len and the nested parser starts with
\* seen() = 0 and left() = len, a nested ContextParser with the context of
\* its parent.  A call on the nested parser reads octets of its window
\* only, and fails with UnexpectedEnd when the octets it has read and those
\* it asks for are more than len.
C19_BoundedSub ==
    /\ cu_op = "parse_sub" =>
          IF cu_arg > left(cu_before)
          THEN ~cu_ret.ok /\ cu_ret.err = "UnexpectedEnd" /\ cu_ret.sub = <<>>
          ELSE /\ cu_ret.ok
               /\ Advanced(cu_arg)
               /\ seen(cu_ret.sub[1]) = 0
               /\ left(cu_ret.sub[1]) = cu_arg
               /\ cu_kind = "ContextParser" =>
                     (/\ IsContextParser(cu_ret.sub[1])
                      /\ cu_ret.sub[1].context = cu_before.context)
    /\ (cu_who = "nested" /\ cu_op # "parse_sub") =>
          IF seen(cu_before) + cu_arg > cu_window.len
          THEN ~cu_ret.ok /\ cu_ret.err = "UnexpectedEnd"
          ELSE /\ cu_ret.ok
               /\ cu_op # "skip" => cu_ret.bytes =
                     Slice(cu_buf, cu_window.from + seen(cu_before),
                           cu_window.from + seen(cu_before) + cu_arg)
               /\ cu_window.from + seen(cu_before) + cu_arg
                     <= cu_window.from + cu_window.len
    /\ (cu_nested # <<>> /\ cu_kind = "ContextParser") =>
          cu_nested[1].context = cu_parser.context

\* A nested ContextParser of 2 octets that has read one fails to read 2,
\* while the parent has 2 octets after the window.
C19_Witness ==
    /\ cu_kind = "ContextParser" /\ cu_who = "nested" /\ cu_op = "parse_u16"
    /\ ~cu_ret.ok /\ cu_window.len = 2 /\ seen(cu_before) = 1
    /\ left(cu_parser) >= 2

---------------------------------------------------------------------------
(* Claims about the builder, read off the staging buffer octet by octet. *)

\* The record types handed to add so far.
Range(seq) == { seq[i] : i \in 1 .. Len(seq) }

\* The windows (high octets) of a set of record types.
HighWindows(types) == { t \div 256 : t \in types }

\* The slots of 34 octets of a staging buffer, counted from 0: the window
\* number, the length octet and the 32 bitmap octets of slot i.
Slots(b) == Len(b) \div 34

SlotWindow(b, i) == b[34 * i + 1]

SlotLength(b, i) == b[34 * i + 2]

SlotOctet(b, i, o) == b[34 * i + 3 + o]

\* C21: after any sequence of add calls on a fresh builder the staging
\* buffer has 34 octets for each distinct window of the types added, the
\* window numbers of its slots increase strictly, one slot for each window,
\* and the length octet of each slot is between 1 and 32 and is one more
\* than the index of the last bitmap octet of the slot that is not zero.
C21_StagingInvariant ==
    LET n == Slots(bd_buf)
        W == HighWindows(Range(bd_seq))
    IN /\ Len(bd_buf) = 34 * Cardinality(W)
       /\ \A i \in 0 .. n - 2 : SlotWindow(bd_buf, i) < SlotWindow(bd_buf, i + 1)
       /\ { SlotWindow(bd_buf, i) : i \in 0 .. n - 1 } = W
       /\ \A i \in 0 .. n - 1 :
             LET L == SlotLength(bd_buf, i)
             IN /\ L \in 1 .. 32
                /\ SlotOctet(bd_buf, i, L - 1) # 0
                /\ \A o \in L .. 31 : SlotOctet(bd_buf, i, o) = 0

\* Int(1234), A and CAA added in this order: the slot of window 1 is put
\* between those of windows 0 and 4.
C21_Witness ==
    /\ bd_seq = <<1234, 1, 257>>
    /\ Len(bd_buf) = 102
    /\ SlotWindow(bd_buf, 1) = 1

\* The slots of a staging buffer from slot i on, each cut down to its window
\* number, its length octet L and its first L bitmap octets.
RECURSIVE Compacted(_, _)
Compacted(b, i) ==
    IF i >= Slots(b) THEN <<>>
    ELSE <<SlotWindow(b, i), SlotLength(b, i)>>
         \o [o \in 1 .. SlotLength(b, i) |-> SlotOctet(b, i, o - 1)]
         \o Compacted(b, i + 1)

\* The sum of 2 + L over the slots from slot i on.
RECURSIVE CompactedLen(_, _)
CompactedLen(b, i) ==
    IF i >= Slots(b) THEN 0 ELSE 2 + SlotLength(b, i) + CompactedLen(b, i + 1)

\* C22: finalize returns, for the slots of the staging buffer in their
\* order, the window number, the length octet L and the first L bitmap
\* octets of each; every window of the output has 1 to 32 octets, the last
\* of them not zero, in increasing window order; the length of the output is
\* the sum of 2 + L; a builder nothing was added to yields no octets; and
\* from_octets accepts the output.
C22_FinalizeOutput ==
    bd_out # <<>> =>
        LET out == bd_out[1]
            ws  == WindowList(out)
        IN /\ out = Compacted(bd_buf, 0)
           /\ WellFormed(out)
           /\ Increasing(out)
           /\ Len(ws) = Slots(bd_buf)
           /\ \A i \in DOMAIN ws : ws[i].octets[ws[i].len] # 0
           /\ Len(out) = CompactedLen(bd_buf, 0)
           /\ bd_seq = <<>> => out = <<>>
           /\ from_octets(out) = "Ok"

\* Int(1234), MX and CAA added and finalized: three windows of 27, 2 and 1
\* bitmap octets, the second and third moved down.
C22_Witness ==
    /\ bd_seq = <<1234, 15, 257>>
    /\ bd_out = << <<0, 2, 0, 1, 1, 1, 64, 4, 27>> \o Zeros(26) \o <<32>> >>

\* The slot of window w in a staging buffer (-1: there is none).
SlotOf(b, w) ==
    LET mine == { i \in 0 .. Slots(b) - 1 : SlotWindow(b, i) = w }
    IN IF mine = {} THEN -1 ELSE CHOOSE i \in mine : TRUE

\* The length octet and the bitmap octet o of window w, 0 without a slot.
LengthIn(b, w) == IF SlotOf(b, w) = -1 THEN 0 ELSE SlotLength(b, SlotOf(b, w))

OctetIn(b, w, o) == IF SlotOf(b, w) = -1 THEN 0 ELSE SlotOctet(b, SlotOf(b, w), o)

\* The window numbers of the slots of a staging buffer, in their order.
SlotWindows(b) == [i \in 1 .. Slots(b) |-> SlotWindow(b, i - 1)]

\* An octet with the bit of mask m set (m a power of two).
WithBit(x, m) == IF (x \div m) % 2 = 1 THEN x ELSE x + m

\* C23: add(t) sets the bit 0x80 >> (t & 7) of octet (t & 0xFF) >> 3 in the
\* slot of window t >> 8, which it makes in its place in the order if there
\* is none; the windows of the other slots, in their order, and every other
\* bit of every slot are as before; the length octet of the slot becomes
\* octet + 1 if that is more than it was and is never lowered.
C23_EffectOfAdd ==
    bd_seq # <<>> =>
        LET t     == bd_seq[Len(bd_seq)]
            w     == t \div 256
            octet == (t % 256) \div 8
            bit   == 128 \div (2 ^ (t % 8))
            old   == { SlotWindow(bd_before, i) : i \in 0 .. Slots(bd_before) - 1 }
        IN /\ Len(bd_buf) = Len(bd_before) + (IF w \in old THEN 0 ELSE 34)
           /\ SlotWindows(bd_buf) = Ascending(old \cup {w})
           /\ \A v \in old \cup {w}, o \in 0 .. 31 :
                 OctetIn(bd_buf, v, o) =
                     IF v = w /\ o = octet THEN WithBit(OctetIn(bd_before, v, o), bit)
                     ELSE OctetIn(bd_before, v, o)
           /\ \A v \in old \cup {w} :
                 LengthIn(bd_buf, v) =
                     IF v = w /\ octet + 1 > LengthIn(bd_before, v) THEN octet + 1
                     ELSE LengthIn(bd_before, v)

\* MX (octet 1) and then A (octet 0) added after Int(1234): the slot of
\* window 0 was put before that of window 4, and the last add leaves its
\* length octet at 2.
C23_Witness ==
    /\ bd_seq = <<1234, 15, 1>>
    /\ SlotWindows(bd_buf) = <<0, 4>>
    /\ LengthIn(bd_before, 0) = 2 /\ LengthIn(bd_buf, 0) = 2
    /\ OctetIn(bd_buf, 0, 0) = 64 /\ OctetIn(bd_before, 0, 0) = 0

\* The sum of a set of numbers.
RECURSIVE SumOf(_)
SumOf(S) ==
    IF S = {} THEN 0
    ELSE LET x == CHOOSE y \in S : TRUE
         IN x + SumOf(S \ {x})

\* The largest of a set of numbers.
Largest(S) == CHOOSE x \in S : \A y \in S : y <= x

\* The window w of the encoding of a set of record types: its number, the
\* number L of octets up to the last with a bit set, and these octets.
EncodedWindow(S, w) ==
    LET mine == { t \in S : t \div 256 = w }
        L    == 1 + Largest({ (t % 256) \div 8 : t \in mine })
    IN <<w, L>>
       \o [o \in 1 .. L |->
              SumOf({ 128 \div (2 ^ (t % 8)) : t \in { u \in mine : (u % 256) \div 8 = o - 1 } })]

\* The encoding of a set of record types: its windows in ascending order.
RECURSIVE EncodedWindows(_, _)
EncodedWindows(S, ws) ==
    IF ws = <<>> THEN <<>>
    ELSE EncodedWindow(S, Head(ws)) \o EncodedWindows(S, Tail(ws))

Encoded(S) == EncodedWindows(S, Ascending(HighWindows(S)))

\* C25: finalize returns octets that depend on the set of the record types
\* added alone, not on the order or the number of the add calls; and the add
\* of a type added before leaves the staging buffer as it was.
C25_OrderIndependent ==
    /\ bd_out # <<>> => bd_out[1] = Encoded(Range(bd_seq))
    /\ (bd_seq # <<>>
          /\ bd_seq[Len(bd_seq)] \in Range(SubSeq(bd_seq, 1, Len(bd_seq) - 1))) =>
           bd_buf = bd_before

\* CAA, A and CAA again, finalized: the octets are those of {A, CAA}.
C25_Witness ==
    /\ bd_seq = <<257, 1, 257>>
    /\ bd_buf = bd_before
    /\ bd_out = << <<0, 1, 64, 1, 1, 64>> >>

---------------------------------------------------------------------------
(* Claims about record data values. *)

\* The last call left every field of the value but f as it was.
OnlyChanged(f) == \A g \in DOMAIN rv_self \ {f} : rv_self[g] = rv_before[g]

\* C24: set_signature of an Rrsig replaces the signature and leaves the
\* other eight fields as they were; set_next_name of an Nsec replaces
\* next_name and leaves the type bitmap as it was; no other call on a value
\* changes a field of it.
C24_SetterFrame ==
    /\ rv_op = "set_signature" =>
          /\ rv_self.signature = rv_arg
          /\ DOMAIN rv_self = DOMAIN rv_before
          /\ OnlyChanged("signature")
    /\ rv_op = "set_next_name" =>
          /\ rv_self.next_name = rv_arg
          /\ rv_self.types = rv_before.types
          /\ OnlyChanged("next_name")
    /\ rv_op \notin {"none", "new", "set_signature", "set_next_name"} =>
          rv_self = rv_before

\* An Rrsig with key tag 1 and no signature is given a signature of two
\* octets.
C24_Witness ==
    /\ rv_type = "Rrsig" /\ rv_op = "set_signature"
    /\ rv_before.key_tag = 1 /\ rv_before.signature = <<>>
    /\ rv_self.key_tag = 1 /\ rv_self.signature = <<255, 0>>

---------------------------------------------------------------------------
(* More about SliceParser and ContextParser. *)

\* C26: a call of parse_bytes, skip, parse_u8, parse_u16, parse_u32,
\* parse_octets or parse_sub that fails with UnexpectedEnd leaves seen(),
\* left(), the octets left and the context of the parser as they were, and a
\* read of a length that fits succeeds after it.
C26_FailedReadsKeepCursor ==
    (cu_op \notin {"none", "new"} /\ ~cu_ret.ok) =>
        LET now == Target(cu_who)
        IN /\ cu_ret.err = "UnexpectedEnd"
           /\ seen(now) = seen(cu_before)
           /\ left(now) = left(cu_before)
           /\ now = cu_before
           /\ \A n \in 0 .. left(now) :
                 /\ parse_bytes(now, n).ok
                 /\ parse_bytes(now, n).bytes = NextOctets(n)

\* A ContextParser with 3 of its 6 octets left fails to parse a u32 and
\* stays where it was.
C26_Witness ==
    /\ cu_kind = "ContextParser" /\ cu_op = "parse_u32" /\ cu_who = "parent"
    /\ ~cu_ret.ok /\ seen(cu_parser) = 3 /\ left(cu_parser) = 3
    /\ parse_bytes(cu_parser, 3).bytes = <<4, 5, 6>>

---------------------------------------------------------------------------
(* More about the comparisons. *)

\* C27: Ord::cmp(a, b) is Equal exactly when a == b, and partial_cmp(a, b) is
\* Some(Ord::cmp(a, b)); stated here for the values of Nsec.
C27_NaturalOrderConsistent ==
    /\ (kind = "Nsec" /\ method = "cmp") => ((ord = "Equal") <=> Nsec_eq(lhs, rhs))
    /\ (kind = "Nsec" /\ method = "partial_cmp") => ord = Nsec_cmp(lhs, rhs)

\* C28: for Srv, Dnskey, Rrsig and Ds, canonical_cmp(a, b) is the order,
\* octet by octet and unsigned, of the octets compose_canonical writes for a
\* and for b; it is Equal exactly when the two encodings are the same.
C28_CanonicalCmpIsEncodingOrder ==
    (method = "canonical_cmp" /\ kind \in {"Srv", "Dnskey", "Rrsig", "Ds"}) =>
        LET ea == compose_canonical(kind, lhs)
            eb == compose_canonical(kind, rhs)
        IN /\ ord = OctetsCmp(ea, eb)
           /\ (ord = "Equal") <=> (ea = eb)

\* Two Srv values that differ in the target alone, "B." against "a.": b
\* follows a once in lower case, though B precedes a as written.
C28_Witness ==
    /\ kind = "Srv" /\ method = "canonical_cmp"
    /\ lhs.target = <<1, 66, 0>> /\ rhs.target = <<1, 97, 0>>
    /\ lhs.priority = rhs.priority /\ lhs.weight = rhs.weight /\ lhs.port = rhs.port
    /\ ord = "Greater"

---------------------------------------------------------------------------
(* More about parse_all. *)

\* C29: a call parse_all(parser, len) made at position p leaves the parser
\* at p + len or before it, whether it succeeds or fails, also when the
\* parser holds more than len octets after p.
C29_NoReadPastLen ==
    pa_type # "none" => pa_res.pos <= pa_start + pa_len

===========================================================================
